---- MODULE Spec2Model ----
(***************************************************************************)
(* State-machine model of the AI Maintenance Reporter backend              *)
(* (src/backend/main.py): the three-node LangGraph classification          *)
(* workflow and the ticket API built on it.                                *)
(*                                                                         *)
(* A Python str is a sequence of one-character strings, so that lower(),   *)
(* strip() and the `in` substring test are computed, not assumed.          *)
(***************************************************************************)
EXTENDS Integers, Sequences, FiniteSets, TLC

VARIABLES
  users,         \* table users: row i is the user with id i (SERIAL, rows are never deleted)
  tokens,        \* payloads of the access tokens issued so far
  tickets,       \* table tickets: a set of rows
  nextTicketId,  \* next value of the SERIAL sequence tickets.id
  files,         \* files under UPLOAD_DIR: path -> stored image
  now,           \* wall clock, in seconds
  job,           \* a workflow run observed node by node: next node, AgentState, nodes run
  req,           \* the request being answered, NoRequest between requests
  response,      \* its response, NoResponse between requests
  calls          \* worker process -> the handler call it is in the middle of

vars == <<users, tokens, tickets, nextTicketId, files, now, job, req, response, calls>>

----------------------------------------------------------------------------
(* Bounds of the exploration *)

\* longest classifier reply, in vocabulary items
MaxWords == 2
\* last second of the wall clock
MaxClock == 1
\* number of tickets.id values handed out
MaxTickets == 2
\* number of worker processes
MaxWorkers == 2

----------------------------------------------------------------------------
(* Python str operations *)

UpperLetters ==
  <<"A","B","C","D","E","F","G","H","I","J","K","L","M",
    "N","O","P","Q","R","S","T","U","V","W","X","Y","Z">>

LowerLetters ==
  <<"a","b","c","d","e","f","g","h","i","j","k","l","m",
    "n","o","p","q","r","s","t","u","v","w","x","y","z">>

\* str.lower() on one character
lower_char(c) ==
  IF \E i \in DOMAIN UpperLetters : UpperLetters[i] = c
  THEN LowerLetters[CHOOSE i \in DOMAIN UpperLetters : UpperLetters[i] = c]
  ELSE c

\* str.lower()
lower(s) == [i \in 1..Len(s) |-> lower_char(s[i])]

\* Python's `needle in hay` on str
contains(needle, hay) ==
  \E i \in 0..(Len(hay) - Len(needle)) : SubSeq(hay, i + 1, i + Len(needle)) = needle

\* any(keyword in text for keyword in keywords)
any_in(keywords, text) == \E k \in DOMAIN keywords : contains(keywords[k], text)

Whitespace == {" ", "\t", "\n"}

RECURSIVE lstrip(_)
lstrip(s) == IF s # <<>> /\ Head(s) \in Whitespace THEN lstrip(Tail(s)) ELSE s

RECURSIVE rstrip(_)
rstrip(s) ==
  IF s # <<>> /\ s[Len(s)] \in Whitespace THEN rstrip(SubSeq(s, 1, Len(s) - 1)) ELSE s

\* str.strip()
strip(s) == rstrip(lstrip(s))

\* " ".join(words)
RECURSIVE join(_)
join(words) ==
  IF words = <<>> THEN <<>>
  ELSE IF Len(words) = 1 THEN words[1]
  ELSE words[1] \o <<" ">> \o join(Tail(words))

----------------------------------------------------------------------------
(* Stage 2 keyword tables *)

critical_keywords ==
  << <<"s","e","v","e","r","e","l","y">>,   \* 'severely'
     <<"b","r","o","k","e","n">>,   \* 'broken'
     <<"d","a","m","a","g","e","d">>,   \* 'damaged'
     <<"f","i","r","e">>,   \* 'fire'
     <<"s","p","a","r","k","i","n","g">>,   \* 'sparking'
     <<"d","a","n","g","e","r","o","u","s">>,   \* 'dangerous'
     <<"h","a","z","a","r","d">>,   \* 'hazard'
     <<"c","a","t","a","s","t","r","o","p","h","i","c">>,   \* 'catastrophic'
     <<"m","a","j","o","r">>,   \* 'major'
     <<"s","h","a","t","t","e","r","e","d">> >>   \* 'shattered'

high_keywords ==
  << <<"n","o","t"," ","w","o","r","k","i","n","g">>,   \* 'not working'
     <<"m","a","l","f","u","n","c","t","i","o","n","i","n","g">>,   \* 'malfunctioning'
     <<"c","r","a","c","k","e","d">>,   \* 'cracked'
     <<"b","e","n","t">>,   \* 'bent'
     <<"l","o","o","s","e">>,   \* 'loose'
     <<"l","e","a","k","i","n","g">> >>   \* 'leaking'

low_keywords ==
  << <<"n","o"," ","m","a","i","n","t","e","n","a","n","c","e"," ","i","s","s","u","e","s">>,   \* 'no maintenance issues'
     <<"n","o"," ","i","s","s","u","e","s">>,   \* 'no issues'
     <<"n","o"," ","v","i","s","i","b","l","e"," ","i","s","s","u","e","s">>,   \* 'no visible issues'
     <<"m","i","n","o","r">>,   \* 'minor'
     <<"s","l","i","g","h","t">> >>   \* 'slight'

IssueTypes == {"Fan", "Light", "Furniture", "Electronics", "Electrical", "Other"}

Priorities == {"low", "medium", "high"}

valid_statuses == {"pending", "in_progress", "resolved", "closed"}

----------------------------------------------------------------------------
(* Paths of uploaded images *)

BASE_DIR ==
  <<"/","a","p","p">>   \* '/app'

UPLOAD_DIR == BASE_DIR \o
  <<"/","u","p","l","o","a","d","s">>   \* '/uploads'

Digits == <<"0","1","2","3","4","5","6","7","8","9">>

\* datetime.now().strftime("%Y%m%d_%H%M%S") at second t of the modelled day
strftime(t) ==
  <<"2","0","2","4","0","1","0","1","_","0","0","0","0">>   \* '20240101_0000'
  \o <<Digits[(t \div 10) + 1], Digits[(t % 10) + 1]>>

\* UPLOAD_DIR / f"{timestamp}_{image.filename}"
upload_path(dir, t, filename) ==
  dir \o <<"/">> \o strftime(t) \o <<"_">> \o filename

----------------------------------------------------------------------------
(* The classification workflow *)

\* What the vision model call does on a stored image:
\*   kind "text"          generate_content answers, response.text = text ("" when empty)
\*   kind "raises"        configure / generate_content / response.text raises, str(e) = text
\*   kind "unidentified"  Image.open raises, str(e) names the file
NoImage == [kind |-> "none", text |-> <<>>]

AIMessage(head, arg) == [type |-> "ai", content |-> <<head, arg>>]

HumanMessage(head, arg) == [type |-> "human", content |-> <<head, arg>>]

\* image_reasoning_tool without its `except Exception` clause
image_reasoning_tool_reraise(image_path, fs) ==
  IF image_path \notin DOMAIN fs
  THEN [raised |-> FALSE,
        value |-> <<"E","r","r","o","r",":"," ","I","m","a","g","e"," ","n","o","t"," ","f","o","u","n","d"," ","a","t"," ">>   \* 'Error: Image not found at '
                  \o image_path]
  ELSE LET image == fs[image_path] IN
         IF image.kind \in {"unidentified", "raises"}
         THEN [raised |-> TRUE, value |-> image.text]
         ELSE [raised |-> FALSE,
               value |-> IF image.text # <<>>
                         THEN strip(image.text)
                         ELSE <<"N","o"," ","v","i","s","i","b","l","e"," ","i","s","s","u","e","s"," ","d","e","t","e","c","t","e","d",".">>   \* 'No visible issues detected.'
              ]

\* Stage 1 tool on the files fs: the result string, and whether an exception
\* left the function (the `except Exception` clause lets none out)
image_reasoning_tool(image_path, fs) ==
  IF image_path \notin DOMAIN fs
  THEN [raised |-> FALSE,
        value |-> <<"E","r","r","o","r",":"," ","I","m","a","g","e"," ","n","o","t"," ","f","o","u","n","d"," ","a","t"," ">>   \* 'Error: Image not found at '
                  \o image_path]
  ELSE LET image == fs[image_path] IN
         CASE image.kind = "unidentified" ->
                [raised |-> FALSE,
                 value |-> <<"E","r","r","o","r"," ","o","c","c","u","r","r","e","d",":"," ","c","a","n","n","o","t"," ","i","d","e","n","t","i","f","y"," ","i","m","a","g","e"," ","f","i","l","e"," ","'">>   \* 'Error occurred: cannot identify image file ''
                           \o image_path \o <<"'">>]
           [] image.kind = "raises" ->
                [raised |-> FALSE,
                 value |-> <<"E","r","r","o","r"," ","o","c","c","u","r","r","e","d",":"," ">>   \* 'Error occurred: '
                           \o image.text]
           [] OTHER ->
                [raised |-> FALSE,
                 value |-> IF image.text # <<>>
                           THEN strip(image.text)
                           ELSE <<"N","o"," ","v","i","s","i","b","l","e"," ","i","s","s","u","e","s"," ","d","e","t","e","c","t","e","d",".">>   \* 'No visible issues detected.'
                ]

\* a node's outcome: the state it returns, or an exception
Returned(state) == [raised |-> FALSE, state |-> state]

Raised(state) == [raised |-> TRUE, state |-> state]

analyze_image_node(state, fs) ==
  LET analysis_result == image_reasoning_tool(state.image_path, fs) IN
    IF analysis_result.raised
    THEN Raised(state)
    ELSE Returned([state EXCEPT
           !.issue_detected = analysis_result.value,
           !.messages = Append(@, AIMessage("Image Analysis Complete: ",
                                            analysis_result.value))])

\* classify_type with the Light test moved before the Fan test
classify_type_light_first(issue_text) ==
  IF any_in(<<
       <<"l","i","g","h","t">>,   \* 'light'
       <<"b","u","l","b">>,   \* 'bulb'
       <<"l","a","m","p">>   \* 'lamp'
       >>, issue_text)
  THEN "Light"
  ELSE IF contains(
       <<"f","a","n">>,   \* 'fan'
       issue_text)
  THEN "Fan"
  ELSE IF any_in(<<
       <<"f","u","r","n","i","t","u","r","e">>,   \* 'furniture'
       <<"c","h","a","i","r">>,   \* 'chair'
       <<"t","a","b","l","e">>,   \* 'table'
       <<"d","e","s","k">>   \* 'desk'
       >>, issue_text)
  THEN "Furniture"
  ELSE IF any_in(<<
       <<"e","l","e","c","t","r","o","n","i","c","s">>,   \* 'electronics'
       <<"c","o","m","p","u","t","e","r">>,   \* 'computer'
       <<"s","c","r","e","e","n">>   \* 'screen'
       >>, issue_text)
  THEN "Electronics"
  ELSE IF any_in(<<
       <<"e","l","e","c","t","r","i","c","a","l">>,   \* 'electrical'
       <<"w","i","r","e">>,   \* 'wire'
       <<"s","o","c","k","e","t">>   \* 'socket'
       >>, issue_text)
  THEN "Electrical"
  ELSE "Other"

\* the if/elif chain deciding issue_type
classify_type(issue_text) ==
  IF contains(
       <<"f","a","n">>,   \* 'fan'
       issue_text)
  THEN "Fan"
  ELSE IF any_in(<<
       <<"l","i","g","h","t">>,   \* 'light'
       <<"b","u","l","b">>,   \* 'bulb'
       <<"l","a","m","p">>   \* 'lamp'
       >>, issue_text)
  THEN "Light"
  ELSE IF any_in(<<
       <<"f","u","r","n","i","t","u","r","e">>,   \* 'furniture'
       <<"c","h","a","i","r">>,   \* 'chair'
       <<"t","a","b","l","e">>,   \* 'table'
       <<"d","e","s","k">>   \* 'desk'
       >>, issue_text)
  THEN "Furniture"
  ELSE IF any_in(<<
       <<"e","l","e","c","t","r","o","n","i","c","s">>,   \* 'electronics'
       <<"c","o","m","p","u","t","e","r">>,   \* 'computer'
       <<"s","c","r","e","e","n">>   \* 'screen'
       >>, issue_text)
  THEN "Electronics"
  ELSE IF any_in(<<
       <<"e","l","e","c","t","r","i","c","a","l">>,   \* 'electrical'
       <<"w","i","r","e">>,   \* 'wire'
       <<"s","o","c","k","e","t">>   \* 'socket'
       >>, issue_text)
  THEN "Electrical"
  ELSE "Other"

\* classify_priority with the critical test moved before the low test
classify_priority_critical_first(issue_text) ==
  IF any_in(critical_keywords, issue_text) THEN "high"
  ELSE IF any_in(low_keywords, issue_text) THEN "low"
  ELSE IF any_in(high_keywords, issue_text) THEN "medium"
  ELSE "low"

\* classify_priority with the high_keywords test moved before the critical test
classify_priority_medium_first(issue_text) ==
  IF any_in(low_keywords, issue_text) THEN "low"
  ELSE IF any_in(high_keywords, issue_text) THEN "medium"
  ELSE IF any_in(critical_keywords, issue_text) THEN "high"
  ELSE "low"

\* classify_priority without the low_keywords test, a text without a damage
\* keyword getting the column default
classify_priority_damage_only(issue_text) ==
  IF any_in(critical_keywords, issue_text) THEN "high"
  ELSE IF any_in(high_keywords, issue_text) THEN "medium"
  ELSE "medium"

\* the if/elif chain deciding priority
classify_priority(issue_text) ==
  IF any_in(low_keywords, issue_text) THEN "low"
  ELSE IF any_in(critical_keywords, issue_text) THEN "high"
  ELSE IF any_in(high_keywords, issue_text) THEN "medium"
  ELSE "low"

\* classify_issue_node storing the lower-cased text back into issue_detected
classify_issue_node_lowering_summary(state) ==
  LET issue_text == lower(state.issue_detected)
      issue_type == classify_type(issue_text)
      priority   == classify_priority(issue_text)
  IN Returned([state EXCEPT
       !.issue_detected = issue_text,
       !.issue_type = issue_type,
       !.priority = priority,
       !.messages = Append(@, AIMessage("Issue classified as: ", <<issue_type, priority>>))])

classify_issue_node(state) ==
  LET issue_text == lower(state.issue_detected)
      issue_type == classify_type(issue_text)
      priority   == classify_priority(issue_text)
  IN Returned([state EXCEPT
       !.issue_type = issue_type,
       !.priority = priority,
       !.messages = Append(@, AIMessage("Issue classified as: ", <<issue_type, priority>>))])

create_ticket_node(state) ==
  Returned([state EXCEPT
    !.ticket_created = TRUE,
    !.messages = Append(@, AIMessage("Maintenance ticket ready to be created", <<>>))])

\* build_workflow: the entry point, the nodes and the edges of the graph
entry_point == "analyze_image"

edge(node) ==
  CASE node = "analyze_image"  -> "classify_issue"
    [] node = "classify_issue" -> "create_ticket"
    [] node = "create_ticket"  -> "END"

run_node(node, state, fs) ==
  CASE node = "analyze_image"  -> analyze_image_node(state, fs)
    [] node = "classify_issue" -> classify_issue_node(state)
    [] node = "create_ticket"  -> create_ticket_node(state)

\* agent_workflow.invoke from `node` on: the final state, or the exception of
\* the node that raised
RECURSIVE invoke_from(_, _, _)
invoke_from(node, state, fs) ==
  IF node = "END" THEN Returned(state)
  ELSE LET out == run_node(node, state, fs) IN
         IF out.raised THEN out ELSE invoke_from(edge(node), out.state, fs)

\* agent_workflow.invoke(initial_state)
invoke(state, fs) == invoke_from(entry_point, state, fs)

\* initial_state of create_ticket
initial_state(student_name, location, image_path) ==
  [messages       |-> <<HumanMessage("Analyzing image from ", <<student_name, location>>)>>,
   image_path     |-> image_path,
   issue_detected |-> <<>>,
   issue_type     |-> "",
   priority       |-> "",
   ticket_created |-> FALSE]

NoState ==
  [messages |-> <<>>, image_path |-> <<>>, issue_detected |-> <<>>,
   issue_type |-> "", priority |-> "", ticket_created |-> FALSE]

\* no workflow run in flight
NoJob == [node |-> "idle", state |-> NoState, ran |-> <<>>]

NoRequest == [op |-> "none"]

NoResponse == [status_code |-> 0, body |-> <<>>]

\* no worker process is in the middle of a call
NoCalls == <<>>

----------------------------------------------------------------------------
(* The workflow, one node per step *)

\* one superstep of the compiled graph: run the current node, follow its edge
superstep(node) ==
  LET out == run_node(node, job.state, files) IN
    IF out.raised
    THEN [job EXCEPT !.node = "raised"]
    ELSE [node |-> edge(node), state |-> out.state, ran |-> Append(job.ran, node)]

invoke_analyze_image ==
  /\ job.node = "analyze_image"
  /\ job' = superstep("analyze_image")
  /\ UNCHANGED <<users, tokens, tickets, nextTicketId, files, now, req, response, calls>>

invoke_classify_issue ==
  /\ job.node = "classify_issue"
  /\ job' = superstep("classify_issue")
  /\ UNCHANGED <<users, tokens, tickets, nextTicketId, files, now, req, response, calls>>

invoke_create_ticket ==
  /\ job.node = "create_ticket"
  /\ job' = superstep("create_ticket")
  /\ UNCHANGED <<users, tokens, tickets, nextTicketId, files, now, req, response, calls>>

\* words and phrases a classifier reply is made of
Vocabulary ==
  { <<"s","e","v","e","r","e","l","y">>,   \* 'severely'
    <<"b","r","o","k","e","n">>,   \* 'broken'
    <<"d","a","m","a","g","e","d">>,   \* 'damaged'
    <<"f","i","r","e">>,   \* 'fire'
    <<"s","p","a","r","k","i","n","g">>,   \* 'sparking'
    <<"d","a","n","g","e","r","o","u","s">>,   \* 'dangerous'
    <<"h","a","z","a","r","d">>,   \* 'hazard'
    <<"c","a","t","a","s","t","r","o","p","h","i","c">>,   \* 'catastrophic'
    <<"m","a","j","o","r">>,   \* 'major'
    <<"s","h","a","t","t","e","r","e","d">>,   \* 'shattered'
    <<"n","o","t"," ","w","o","r","k","i","n","g">>,   \* 'not working'
    <<"m","a","l","f","u","n","c","t","i","o","n","i","n","g">>,   \* 'malfunctioning'
    <<"c","r","a","c","k","e","d">>,   \* 'cracked'
    <<"b","e","n","t">>,   \* 'bent'
    <<"l","o","o","s","e">>,   \* 'loose'
    <<"l","e","a","k","i","n","g">>,   \* 'leaking'
    <<"n","o"," ","m","a","i","n","t","e","n","a","n","c","e"," ","i","s","s","u","e","s">>,   \* 'no maintenance issues'
    <<"n","o"," ","i","s","s","u","e","s">>,   \* 'no issues'
    <<"n","o"," ","v","i","s","i","b","l","e"," ","i","s","s","u","e","s">>,   \* 'no visible issues'
    <<"m","i","n","o","r">>,   \* 'minor'
    <<"s","l","i","g","h","t">>,   \* 'slight'
    <<"f","a","n">>,   \* 'fan'
    <<"l","i","g","h","t">>,   \* 'light'
    <<"b","u","l","b">>,   \* 'bulb'
    <<"l","a","m","p">>,   \* 'lamp'
    <<"f","u","r","n","i","t","u","r","e">>,   \* 'furniture'
    <<"c","h","a","i","r">>,   \* 'chair'
    <<"t","a","b","l","e">>,   \* 'table'
    <<"d","e","s","k">>,   \* 'desk'
    <<"e","l","e","c","t","r","o","n","i","c","s">>,   \* 'electronics'
    <<"c","o","m","p","u","t","e","r">>,   \* 'computer'
    <<"s","c","r","e","e","n">>,   \* 'screen'
    <<"e","l","e","c","t","r","i","c","a","l">>,   \* 'electrical'
    <<"w","i","r","e">>,   \* 'wire'
    <<"s","o","c","k","e","t">>,   \* 'socket'
    <<"F","A","N">>,   \* 'FAN'
    <<"B","r","o","k","e","n">>,   \* 'Broken'
    <<"S","l","i","g","h","t","l","y">>,   \* 'Slightly'
    <<"L","a","m","p">>,   \* 'Lamp'
    <<"N","o">>,   \* 'No'
    <<"i","s","s","u","e","s">>,   \* 'issues'
    <<"n","o","t">>,   \* 'not'
    <<"w","o","r","k","i","n","g">>,   \* 'working'
    <<"d","o","o","r">>,   \* 'door'
    <<" ">> }   \* ' '

WordSeqs == UNION {[1..n -> Vocabulary] : n \in 0..MaxWords}

ExampleReplies ==
  { <<"C","e","i","l","i","n","g"," ","f","a","n"," ","b","l","a","d","e"," ","i","s"," ","s","e","v","e","r","e","l","y"," ","b","e","n","t"," ","a","n","d"," ","b","r","o","k","e","n">>,   \* 'Ceiling fan blade is severely bent and broken'
    <<"N","o"," ","m","a","i","n","t","e","n","a","n","c","e"," ","i","s","s","u","e","s"," ","d","e","t","e","c","t","e","d">>,   \* 'No maintenance issues detected'
    <<"T","h","e"," ","d","e","s","k"," ","l","a","m","p"," ","i","s"," ","s","l","i","g","h","t","l","y"," ","c","r","a","c","k","e","d"," ","b","u","t"," ","t","h","e"," ","w","i","r","e"," ","i","s"," ","s","p","a","r","k","i","n","g">> }   \* 'The desk lamp is slightly cracked but the wire is sparking'

RepliedTexts == {join(ws) : ws \in WordSeqs} \cup ExampleReplies

RaisedTexts ==
  { <<"4","2","9"," ","q","u","o","t","a"," ","e","x","c","e","e","d","e","d">>,   \* '429 quota exceeded'
    <<"A","P","I"," ","k","e","y"," ","n","o","t"," ","v","a","l","i","d">> }   \* 'API key not valid'

PipeImages ==
  {[kind |-> "text", text |-> t] : t \in RepliedTexts}
  \cup {[kind |-> "raises", text |-> t] : t \in RaisedTexts}
  \cup {[kind |-> "unidentified", text |-> <<>>]}

PipePaths ==
  { upload_path(UPLOAD_DIR, 0,
      <<"i","m","g",".","p","n","g">>),   \* 'img.png'
    upload_path(UPLOAD_DIR, 0,
      <<"B","r","o","k","e","n","_","F","a","n",".","j","p","g">>) }   \* 'Broken_Fan.jpg'

\* a workflow run about to start, on a drawn image path and a drawn upload
\* directory content (the image stored at that path, or no file there)
PipeInit ==
  /\ users = <<>>
  /\ tokens = {}
  /\ tickets = {}
  /\ nextTicketId = 1
  /\ now = 0
  /\ req = NoRequest
  /\ response = NoResponse
  /\ calls = NoCalls
  /\ \E p \in PipePaths :
       /\ \/ files = <<>>
          \/ \E image \in PipeImages : files = [q \in {p} |-> image]
       /\ job = [node |-> entry_point, state |-> initial_state("n1", "l1", p), ran |-> <<>>]

PipeNext ==
  \/ invoke_analyze_image
  \/ invoke_classify_issue
  \/ invoke_create_ticket

PipeSpec == PipeInit /\ [][PipeNext]_vars


----------------------------------------------------------------------------
(* Credentials *)

SECRET_KEY == "your-secret-key-change-this-in-production"

ACCESS_TOKEN_EXPIRE_MINUTES == 60 * 24

\* sha256(password + SECRET_KEY).hexdigest(): the digest stands for its input
get_password_hash(password) == [sha256 |-> <<password, SECRET_KEY>>]

\* verify_password hashing the password without SECRET_KEY
verify_password_unsalted(plain_password, hashed_password) ==
  [sha256 |-> <<plain_password>>] = hashed_password

verify_password(plain_password, hashed_password) ==
  [sha256 |-> <<plain_password, SECRET_KEY>>] = hashed_password

\* jwt.encode at second t: the claims, signed with the service key
create_access_token(data, t) ==
  [sub |-> data.sub, user_id |-> data.user_id,
   exp |-> t + ACCESS_TOKEN_EXPIRE_MINUTES * 60, key |-> SECRET_KEY]

\* jwt.decode with options verify_exp off
verify_token_without_exp(credentials, t) ==
  IF credentials.key # SECRET_KEY
  THEN [ok |-> FALSE, status_code |-> 401, detail |-> "Invalid token", user_id |-> 0]
  ELSE [ok |-> TRUE, status_code |-> 200, detail |-> "", user_id |-> credentials.user_id]

\* jwt.decode at second t: the signature is checked first, then the expiry
verify_token(credentials, t) ==
  IF credentials.key # SECRET_KEY
  THEN [ok |-> FALSE, status_code |-> 401, detail |-> "Invalid token", user_id |-> 0]
  ELSE IF credentials.exp <= t
  THEN [ok |-> FALSE, status_code |-> 401, detail |-> "Token has expired", user_id |-> 0]
  ELSE [ok |-> TRUE, status_code |-> 200, detail |-> "", user_id |-> credentials.user_id]

----------------------------------------------------------------------------
(* Request handlers: each maps the stored state and a request to the new     *)
(* contents of what it writes and to the response it sends                  *)

Response(status_code, body) == [status_code |-> status_code, body |-> body]

\* SELECT role FROM users WHERE id = ?
role_of(user_id) ==
  IF user_id \in DOMAIN users THEN <<users[user_id].role>> ELSE <<>>

TicketResponse(ticket) ==
  [id |-> ticket.id, student_name |-> ticket.student_name, location |-> ticket.location,
   issue_type |-> ticket.issue_type, description |-> ticket.description,
   status |-> ticket.status, created_at |-> ticket.created_at, priority |-> ticket.priority]

\* ORDER BY created_at DESC; rows of the same modelled second are ordered by
\* insertion, the database timestamp being finer than a second
RECURSIVE order_by_created_at_desc(_)
order_by_created_at_desc(rows) ==
  IF rows = {} THEN <<>>
  ELSE LET first == CHOOSE r \in rows : \A o \in rows :
                      \/ r.created_at > o.created_at
                      \/ r.created_at = o.created_at /\ r.id >= o.id
       IN <<first>> \o order_by_created_at_desc(rows \ {first})

\* the email field of a request body: the address with its domain part in
\* lower case, the part before the "@" as it was sent
EmailStr(v) ==
  LET at == CHOOSE i \in DOMAIN v : v[i] = "@" /\ \A j \in DOMAIN v : v[j] = "@" => j <= i
  IN SubSeq(v, 1, at) \o lower(SubSeq(v, at + 1, Len(v)))

\* the request object built from the JSON body of a signup: a body without
\* the key role gets the default
SignupRequest(body) ==
  [email |-> EmailStr(body.email),
   password |-> body.password,
   full_name |-> body.full_name,
   role |-> IF "role" \in DOMAIN body THEN body.role ELSE "student"]

LoginRequest(body) ==
  [email |-> EmailStr(body.email), password |-> body.password]

\* signup writing the new role over the row of a registered email
signup_upserting(request) ==
  IF Len(request.password) < 6 \/ request.role \notin {"student", "admin"}
  THEN [users |-> users, tokens |-> tokens,
        response |-> Response(422, "validation error")]
  ELSE LET found == {i \in DOMAIN users : users[i].email = request.email}
           user_id == IF found = {} THEN Len(users) + 1 ELSE CHOOSE i \in found : TRUE
           row == [email |-> request.email,
                   password_hash |-> get_password_hash(request.password),
                   full_name |-> request.full_name,
                   role |-> request.role]
           token == create_access_token([sub |-> request.email, user_id |-> user_id], now)
       IN [users |-> IF found = {} THEN Append(users, row)
                     ELSE [users EXCEPT ![user_id] = row],
           tokens |-> tokens \cup {token},
           response |-> Response(200,
                          [access_token |-> token,
                           user |-> [id |-> user_id, email |-> request.email,
                                     full_name |-> request.full_name,
                                     role |-> request.role]])]

signup(request) ==
  IF Len(request.password) < 6 \/ request.role \notin {"student", "admin"}
  THEN [users |-> users, tokens |-> tokens,
        response |-> Response(422, "validation error")]
  ELSE IF \E i \in DOMAIN users : users[i].email = request.email
  THEN [users |-> users, tokens |-> tokens,
        response |-> Response(400, "Email already registered")]
  ELSE LET user_id == Len(users) + 1
           token == create_access_token([sub |-> request.email, user_id |-> user_id], now)
       IN [users |-> Append(users, [email |-> request.email,
                                    password_hash |-> get_password_hash(request.password),
                                    full_name |-> request.full_name,
                                    role |-> request.role]),
           tokens |-> tokens \cup {token},
           response |-> Response(200,
                          [access_token |-> token,
                           user |-> [id |-> user_id, email |-> request.email,
                                     full_name |-> request.full_name,
                                     role |-> request.role]])]

\* login answering an unregistered email apart from a wrong password
login_naming_unknown_email(request) ==
  LET found == {i \in DOMAIN users : users[i].email = request.email} IN
    IF found = {}
    THEN [tokens |-> tokens,
          response |-> Response(404, "User not found")]
    ELSE LET id == CHOOSE i \in found : TRUE
             user == users[id]
             token == create_access_token([sub |-> user.email, user_id |-> id], now)
         IN IF ~verify_password(request.password, user.password_hash)
            THEN [tokens |-> tokens,
                  response |-> Response(401, "Invalid credentials")]
            ELSE [tokens |-> tokens \cup {token},
                  response |-> Response(200,
                                 [access_token |-> token,
                                  user |-> [id |-> id, email |-> user.email,
                                            full_name |-> user.full_name,
                                            role |-> user.role]])]

login(request) ==
  LET found == {i \in DOMAIN users : users[i].email = request.email} IN
    IF found = {} \/ ~verify_password(request.password,
                                      users[CHOOSE i \in found : TRUE].password_hash)
    THEN [tokens |-> tokens,
          response |-> Response(401, "Invalid credentials")]
    ELSE LET id == CHOOSE i \in found : TRUE
             user == users[id]
             token == create_access_token([sub |-> user.email, user_id |-> id], now)
         IN [tokens |-> tokens \cup {token},
             response |-> Response(200,
                            [access_token |-> token,
                             user |-> [id |-> id, email |-> user.email,
                                       full_name |-> user.full_name,
                                       role |-> user.role]])]

\* create_ticket storing the first user as the owner of every ticket
create_ticket_first_user(credentials, student_name, location, image) ==
  LET user == verify_token(credentials, now) IN
    IF ~user.ok
    THEN [tickets |-> tickets, nextTicketId |-> nextTicketId, files |-> files,
          response |-> Response(user.status_code, user.detail)]
    ELSE IF image.filename = <<>>
    THEN [tickets |-> tickets, nextTicketId |-> nextTicketId, files |-> files,
          response |-> Response(400,
                                "No image file provided")]
    ELSE
      LET image_path == upload_path(UPLOAD_DIR, now, image.filename)
          saved == [p \in DOMAIN files \cup {image_path} |->
                      IF p = image_path THEN image.file ELSE files[p]]
          final == invoke(initial_state(student_name, location, image_path), saved)
          ticket == [id |-> nextTicketId,
                     user_id |-> 1,
                     student_name |-> student_name,
                     location |-> location,
                     issue_type |-> final.state.issue_type,
                     description |-> final.state.issue_detected,
                     image_path |-> image_path,
                     status |-> "pending",
                     created_at |-> now,
                     priority |-> final.state.priority]
      IN IF final.raised
         THEN [tickets |-> tickets, nextTicketId |-> nextTicketId, files |-> saved,
               response |-> Response(500,
                                     "Error processing request")]
         ELSE [tickets |-> tickets \cup {ticket}, nextTicketId |-> nextTicketId + 1,
               files |-> saved,
               response |-> Response(200,
                                     TicketResponse(ticket))]

create_ticket(credentials, student_name, location, image) ==
  LET user == verify_token(credentials, now) IN
    IF ~user.ok
    THEN [tickets |-> tickets, nextTicketId |-> nextTicketId, files |-> files,
          response |-> Response(user.status_code, user.detail)]
    ELSE IF image.filename = <<>>
    THEN [tickets |-> tickets, nextTicketId |-> nextTicketId, files |-> files,
          response |-> Response(400,
                                "No image file provided")]
    ELSE
      LET image_path == upload_path(UPLOAD_DIR, now, image.filename)
          saved == [p \in DOMAIN files \cup {image_path} |->
                      IF p = image_path THEN image.file ELSE files[p]]
          final == invoke(initial_state(student_name, location, image_path), saved)
          ticket == [id |-> nextTicketId,
                     user_id |-> user.user_id,
                     student_name |-> student_name,
                     location |-> location,
                     issue_type |-> final.state.issue_type,
                     description |-> final.state.issue_detected,
                     image_path |-> image_path,
                     status |-> "pending",
                     created_at |-> now,
                     priority |-> final.state.priority]
      IN IF final.raised
         THEN [tickets |-> tickets, nextTicketId |-> nextTicketId, files |-> saved,
               response |-> Response(500,
                                     "Error processing request")]
         ELSE [tickets |-> tickets \cup {ticket}, nextTicketId |-> nextTicketId + 1,
               files |-> saved,
               response |-> Response(200,
                                     TicketResponse(ticket))]

\* get_tickets without the role test: every caller is served every row
get_tickets_unfiltered(credentials) ==
  LET user == verify_token(credentials, now)
      listed == order_by_created_at_desc(tickets)
  IN IF ~user.ok
     THEN Response(user.status_code, user.detail)
     ELSE Response(200,
                   [i \in DOMAIN listed |-> TicketResponse(listed[i])])

get_tickets(credentials) ==
  LET user == verify_token(credentials, now)
      user_data == role_of(user.user_id)
      user_role == IF user_data # <<>> THEN user_data[1] ELSE "student"
      rows == IF user_role = "admin"
              THEN tickets
              ELSE {t \in tickets : t.user_id = user.user_id}
      listed == order_by_created_at_desc(rows)
  IN IF ~user.ok
     THEN Response(user.status_code, user.detail)
     ELSE Response(200,
                   [i \in DOMAIN listed |-> TicketResponse(listed[i])])

\* get_ticket selecting by id alone
get_ticket_any_owner(credentials, ticket_id) ==
  LET user == verify_token(credentials, now)
      found == {t \in tickets : t.id = ticket_id}
  IN IF ~user.ok
     THEN Response(user.status_code, user.detail)
     ELSE IF found = {}
     THEN Response(404, "Ticket not found")
     ELSE Response(200,
                   TicketResponse(CHOOSE t \in found : TRUE))

get_ticket(credentials, ticket_id) ==
  LET user == verify_token(credentials, now)
      found == {t \in tickets : t.id = ticket_id /\ t.user_id = user.user_id}
  IN IF ~user.ok
     THEN Response(user.status_code, user.detail)
     ELSE IF found = {}
     THEN Response(404, "Ticket not found")
     ELSE Response(200,
                   TicketResponse(CHOOSE t \in found : TRUE))

\* update_ticket_status without the admin test
update_ticket_status_any_role(credentials, ticket_id, ticket_status) ==
  LET user == verify_token(credentials, now)
      updated == {IF t.id = ticket_id THEN [t EXCEPT !.status = ticket_status] ELSE t
                    : t \in tickets}
      rows_affected == Cardinality({t \in tickets : t.id = ticket_id})
  IN IF ~user.ok
     THEN [tickets |-> tickets,
           response |-> Response(user.status_code, user.detail)]
     ELSE IF ticket_status \notin valid_statuses
     THEN [tickets |-> tickets,
           response |-> Response(400,
                                 "Invalid status")]
     ELSE IF rows_affected = 0
     THEN [tickets |-> updated,
           response |-> Response(404,
                                 "Ticket not found")]
     ELSE [tickets |-> updated,
           response |-> Response(200,
                                 [message |-> "Ticket status updated successfully",
                                  ticket_id |-> ticket_id, status |-> ticket_status])]

\* update_ticket_status moving a status forward only (UPDATE ... AND status before the target)
update_ticket_status_forward_only(credentials, ticket_id, ticket_status) ==
  LET user == verify_token(credentials, now)
      user_data == role_of(user.user_id)
      rank == [s \in {"pending", "in_progress", "resolved", "closed"} |->
                 CASE s = "pending" -> 1 [] s = "in_progress" -> 2
                   [] s = "resolved" -> 3 [] s = "closed" -> 4]
      updated == {IF t.id = ticket_id /\ rank[t.status] < rank[ticket_status]
                  THEN [t EXCEPT !.status = ticket_status] ELSE t
                    : t \in tickets}
      rows_affected == Cardinality({t \in tickets : t.id = ticket_id
                                      /\ rank[t.status] < rank[ticket_status]})
  IN IF ~user.ok
     THEN [tickets |-> tickets,
           response |-> Response(user.status_code, user.detail)]
     ELSE IF ticket_status \notin valid_statuses
     THEN [tickets |-> tickets,
           response |-> Response(400,
                                 "Invalid status")]
     ELSE IF user_data = <<>> \/ user_data[1] # "admin"
     THEN [tickets |-> tickets,
           response |-> Response(403,
                                 "Admin access required")]
     ELSE IF rows_affected = 0
     THEN [tickets |-> updated,
           response |-> Response(404,
                                 "Ticket not found")]
     ELSE [tickets |-> updated,
           response |-> Response(200,
                                 [message |-> "Ticket status updated successfully",
                                  ticket_id |-> ticket_id, status |-> ticket_status])]

update_ticket_status(credentials, ticket_id, ticket_status) ==
  LET user == verify_token(credentials, now)
      user_data == role_of(user.user_id)
      updated == {IF t.id = ticket_id THEN [t EXCEPT !.status = ticket_status] ELSE t
                    : t \in tickets}
      rows_affected == Cardinality({t \in tickets : t.id = ticket_id})
  IN IF ~user.ok
     THEN [tickets |-> tickets,
           response |-> Response(user.status_code, user.detail)]
     ELSE IF ticket_status \notin valid_statuses
     THEN [tickets |-> tickets,
           response |-> Response(400,
                                 "Invalid status")]
     ELSE IF user_data = <<>> \/ user_data[1] # "admin"
     THEN [tickets |-> tickets,
           response |-> Response(403,
                                 "Admin access required")]
     ELSE IF rows_affected = 0
     THEN [tickets |-> updated,
           response |-> Response(404,
                                 "Ticket not found")]
     ELSE [tickets |-> updated,
           response |-> Response(200,
                                 [message |-> "Ticket status updated successfully",
                                  ticket_id |-> ticket_id, status |-> ticket_status])]

\* TicketUpdateRequest: a field is {} when absent (None) and {v} when given
TicketUpdateRequest(student_name, location, issue_type, description, priority, status) ==
  [student_name |-> student_name, location |-> location, issue_type |-> issue_type,
   description |-> description, priority |-> priority, status |-> status]

\* TicketUpdateRequest with validate_priority alone
validate_ticket_update_priority_only(ticket_update) ==
  ticket_update.priority \subseteq Priorities

\* the field validators of TicketUpdateRequest
validate_ticket_update(ticket_update) ==
  /\ ticket_update.priority \subseteq Priorities
  /\ ticket_update.status \subseteq valid_statuses

\* an UPDATE naming every column, a column without a supplied value getting
\* the empty string
SetField_every_column(given, old) == IF given = {} THEN "" ELSE CHOOSE v \in given : TRUE

\* the value a column has after the UPDATE built from update_fields
SetField(given, old) == IF given = {} THEN old ELSE CHOOSE v \in given : TRUE

\* update_ticket without the owner-or-admin test
update_ticket_any_caller(credentials, ticket_id, ticket_update) ==
  LET user == verify_token(credentials, now)
      user_data == role_of(user.user_id)
      user_role == IF user_data # <<>> THEN user_data[1] ELSE "student"
      ticket_data == {t \in tickets : t.id = ticket_id}
      ticket_owner_id == (CHOOSE t \in ticket_data : TRUE).user_id
      update_fields ==
        {f \in {"student_name", "location", "issue_type", "description", "priority", "status"} :
           ticket_update[f] # {}}
      updated ==
        {IF t.id = ticket_id
         THEN [t EXCEPT !.student_name = SetField(ticket_update.student_name, @),
                        !.location = SetField(ticket_update.location, @),
                        !.issue_type = SetField(ticket_update.issue_type, @),
                        !.description = SetField(ticket_update.description, @),
                        !.priority = SetField(ticket_update.priority, @),
                        !.status = SetField(ticket_update.status, @)]
         ELSE t : t \in tickets}
      Reject(status_code, detail) ==
        [tickets |-> tickets,
         response |-> Response(status_code, detail)]
  IN IF ~user.ok THEN Reject(user.status_code, user.detail)
     ELSE IF ~validate_ticket_update(ticket_update)
     THEN Reject(422, "validation error")
     ELSE IF ticket_data = {}
     THEN Reject(404, "Ticket not found")
     ELSE IF ticket_update.status # {} /\ user_role # "admin"
     THEN Reject(403, "Only admins can update ticket status")
     ELSE IF update_fields = {}
     THEN Reject(400, "No fields to update")
     ELSE [tickets |-> updated,
           response |-> Response(200,
                          TicketResponse(CHOOSE t \in updated : t.id = ticket_id))]

\* update_ticket writing the other fields of a non-admin's body that names status
update_ticket_dropping_status(credentials, ticket_id, ticket_update) ==
  LET user == verify_token(credentials, now)
      user_data == role_of(user.user_id)
      user_role == IF user_data # <<>> THEN user_data[1] ELSE "student"
      ticket_data == {t \in tickets : t.id = ticket_id}
      ticket_owner_id == (CHOOSE t \in ticket_data : TRUE).user_id
      update_fields ==
        {f \in {"student_name", "location", "issue_type", "description", "priority", "status"} :
           ticket_update[f] # {}}
      updated ==
        {IF t.id = ticket_id
         THEN [t EXCEPT !.student_name = SetField(ticket_update.student_name, @),
                        !.location = SetField(ticket_update.location, @),
                        !.issue_type = SetField(ticket_update.issue_type, @),
                        !.description = SetField(ticket_update.description, @),
                        !.priority = SetField(ticket_update.priority, @),
                        !.status = IF user_role = "admin"
                                   THEN SetField(ticket_update.status, @) ELSE @]
         ELSE t : t \in tickets}
      Reject(status_code, detail) ==
        [tickets |-> tickets,
         response |-> Response(status_code, detail)]
  IN IF ~user.ok THEN Reject(user.status_code, user.detail)
     ELSE IF ~validate_ticket_update(ticket_update)
     THEN Reject(422, "validation error")
     ELSE IF ticket_data = {}
     THEN Reject(404, "Ticket not found")
     ELSE IF user_role # "admin" /\ ticket_owner_id # user.user_id
     THEN Reject(403, "Not authorized to update this ticket")
     ELSE IF update_fields = {}
     THEN Reject(400, "No fields to update")
     ELSE [tickets |-> updated,
           response |-> Response(200,
                          TicketResponse(CHOOSE t \in updated : t.id = ticket_id))]

update_ticket(credentials, ticket_id, ticket_update) ==
  LET user == verify_token(credentials, now)
      user_data == role_of(user.user_id)
      user_role == IF user_data # <<>> THEN user_data[1] ELSE "student"
      ticket_data == {t \in tickets : t.id = ticket_id}
      ticket_owner_id == (CHOOSE t \in ticket_data : TRUE).user_id
      update_fields ==
        {f \in {"student_name", "location", "issue_type", "description", "priority", "status"} :
           ticket_update[f] # {}}
      updated ==
        {IF t.id = ticket_id
         THEN [t EXCEPT !.student_name = SetField(ticket_update.student_name, @),
                        !.location = SetField(ticket_update.location, @),
                        !.issue_type = SetField(ticket_update.issue_type, @),
                        !.description = SetField(ticket_update.description, @),
                        !.priority = SetField(ticket_update.priority, @),
                        !.status = SetField(ticket_update.status, @)]
         ELSE t : t \in tickets}
      Reject(status_code, detail) ==
        [tickets |-> tickets,
         response |-> Response(status_code, detail)]
  IN IF ~user.ok THEN Reject(user.status_code, user.detail)
     ELSE IF ~validate_ticket_update(ticket_update)
     THEN Reject(422, "validation error")
     ELSE IF ticket_data = {}
     THEN Reject(404, "Ticket not found")
     ELSE IF user_role # "admin" /\ ticket_owner_id # user.user_id
     THEN Reject(403, "Not authorized to update this ticket")
     ELSE IF ticket_update.status # {} /\ user_role # "admin"
     THEN Reject(403, "Only admins can update ticket status")
     ELSE IF update_fields = {}
     THEN Reject(400, "No fields to update")
     ELSE [tickets |-> updated,
           response |-> Response(200,
                          TicketResponse(CHOOSE t \in updated : t.id = ticket_id))]

\* delete_ticket without the admin test
delete_ticket_any_role(credentials, ticket_id, remove_fails) ==
  LET user == verify_token(credentials, now)
      ticket_data == {t \in tickets : t.id = ticket_id}
      image_path == (CHOOSE t \in ticket_data : TRUE).image_path
      Reject(status_code, detail) ==
        [tickets |-> tickets, files |-> files,
         response |-> Response(status_code, detail)]
  IN IF ~user.ok THEN Reject(user.status_code, user.detail)
     ELSE IF ticket_data = {}
     THEN Reject(404, "Ticket not found")
     ELSE [tickets |-> tickets \ ticket_data,
           files |-> IF image_path \in DOMAIN files /\ ~remove_fails
                     THEN [p \in DOMAIN files \ {image_path} |-> files[p]]
                     ELSE files,
           response |-> Response(200,
                          [message |-> "Ticket deleted successfully",
                           ticket_id |-> ticket_id])]

\* remove_fails: os.remove raises (the exception is caught and printed)
delete_ticket(credentials, ticket_id, remove_fails) ==
  LET user == verify_token(credentials, now)
      user_data == role_of(user.user_id)
      ticket_data == {t \in tickets : t.id = ticket_id}
      image_path == (CHOOSE t \in ticket_data : TRUE).image_path
      Reject(status_code, detail) ==
        [tickets |-> tickets, files |-> files,
         response |-> Response(status_code, detail)]
  IN IF ~user.ok THEN Reject(user.status_code, user.detail)
     ELSE IF user_data = <<>> \/ user_data[1] # "admin"
     THEN Reject(403, "Admin access required")
     ELSE IF ticket_data = {}
     THEN Reject(404, "Ticket not found")
     ELSE [tickets |-> tickets \ ticket_data,
           files |-> IF image_path \in DOMAIN files /\ ~remove_fails
                     THEN [p \in DOMAIN files \ {image_path} |-> files[p]]
                     ELSE files,
           response |-> Response(200,
                          [message |-> "Ticket deleted successfully",
                           ticket_id |-> ticket_id])]

----------------------------------------------------------------------------
(* The service: a req is handled in one step, its response sent in the  *)
(* next                                                                     *)

Signup(body) ==
  /\ req = NoRequest
  /\ req' = [op |-> "signup", body |-> body]
  /\ \E done \in {signup(SignupRequest(body))} :
       /\ users' = done.users
       /\ tokens' = done.tokens
       /\ response' = done.response
  /\ UNCHANGED <<tickets, nextTicketId, files, now, job, calls>>

Login(body) ==
  /\ req = NoRequest
  /\ req' = [op |-> "login", body |-> body]
  /\ \E done \in {login(LoginRequest(body))} :
       /\ tokens' = done.tokens
       /\ response' = done.response
  /\ UNCHANGED <<users, tickets, nextTicketId, files, now, job, calls>>

CreateTicket(credentials, student_name, location, image) ==
  /\ req = NoRequest
  /\ nextTicketId <= MaxTickets
  /\ req' = [op |-> "create_ticket", credentials |-> credentials,
                 student_name |-> student_name, location |-> location, image |-> image]
  /\ \E done \in {create_ticket(credentials, student_name, location, image)} :
       /\ tickets' = done.tickets
       /\ nextTicketId' = done.nextTicketId
       /\ files' = done.files
       /\ response' = done.response
  /\ UNCHANGED <<users, tokens, now, job, calls>>

GetTickets(credentials) ==
  /\ req = NoRequest
  /\ req' = [op |-> "get_tickets", credentials |-> credentials]
  /\ response' = get_tickets(credentials)
  /\ UNCHANGED <<users, tokens, tickets, nextTicketId, files, now, job, calls>>

GetTicket(credentials, ticket_id) ==
  /\ req = NoRequest
  /\ req' = [op |-> "get_ticket", credentials |-> credentials, ticket_id |-> ticket_id]
  /\ response' = get_ticket(credentials, ticket_id)
  /\ UNCHANGED <<users, tokens, tickets, nextTicketId, files, now, job, calls>>

UpdateTicketStatus(credentials, ticket_id, ticket_status) ==
  /\ req = NoRequest
  /\ req' = [op |-> "update_ticket_status", credentials |-> credentials,
                 ticket_id |-> ticket_id, ticket_status |-> ticket_status]
  /\ \E done \in {update_ticket_status(credentials, ticket_id, ticket_status)} :
       /\ tickets' = done.tickets
       /\ response' = done.response
  /\ UNCHANGED <<users, tokens, nextTicketId, files, now, job, calls>>

UpdateTicket(credentials, ticket_id, ticket_update) ==
  /\ req = NoRequest
  /\ req' = [op |-> "update_ticket", credentials |-> credentials,
                 ticket_id |-> ticket_id, ticket_update |-> ticket_update]
  /\ \E done \in {update_ticket(credentials, ticket_id, ticket_update)} :
       /\ tickets' = done.tickets
       /\ response' = done.response
  /\ UNCHANGED <<users, tokens, nextTicketId, files, now, job, calls>>

DeleteTicket(credentials, ticket_id, remove_fails) ==
  /\ req = NoRequest
  /\ req' = [op |-> "delete_ticket", credentials |-> credentials, ticket_id |-> ticket_id]
  /\ \E done \in {delete_ticket(credentials, ticket_id, remove_fails)} :
       /\ tickets' = done.tickets
       /\ files' = done.files
       /\ response' = done.response
  /\ UNCHANGED <<users, tokens, nextTicketId, now, job, calls>>

\* the response goes out; the next req can be taken
Reply ==
  /\ req # NoRequest
  /\ req' = NoRequest
  /\ response' = NoResponse
  /\ UNCHANGED <<users, tokens, tickets, nextTicketId, files, now, job, calls>>

\* a second passes between two requests
Tick ==
  /\ req = NoRequest
  /\ now < MaxClock
  /\ now' = now + 1
  /\ UNCHANGED <<users, tokens, tickets, nextTicketId, files, job, req, response, calls>>

----------------------------------------------------------------------------
(* Requests the clients send *)

Emails ==
  { <<"a","@","x",".","c","o","m">>,   \* 'a@x.com'
    <<"b","@","x",".","c","o","m">> }   \* 'b@x.com'

SignupRequests ==
  {[email |-> e,
    password |-> <<"s","e","c","r","e","t","1">>,   \* 'secret1'
    full_name |-> "u", role |-> r] : e \in Emails, r \in {"student", "admin"}}

\* a token signed with another key
ForgedToken == [sub |-> <<>>, user_id |-> 1, exp |-> ACCESS_TOKEN_EXPIRE_MINUTES * 60,
                key |-> "another-key"]

Credentials == tokens \cup {ForgedToken}

TicketIds == 1..MaxTickets

Images ==
  { [kind |-> "text", text |->
      <<"C","e","i","l","i","n","g"," ","f","a","n"," ","b","l","a","d","e"," ","i","s"," ","s","e","v","e","r","e","l","y"," ","b","e","n","t"," ","a","n","d"," ","b","r","o","k","e","n">>   \* 'Ceiling fan blade is severely bent and broken'
      ],
    [kind |-> "raises", text |->
      <<"4","2","9"," ","q","u","o","t","a"," ","e","x","c","e","e","d","e","d">>   \* '429 quota exceeded'
      ] }

Uploads ==
  {[filename |-> f, file |-> i] : f \in {
      <<"B","r","o","k","e","n","_","F","a","n",".","j","p","g">>,   \* 'Broken_Fan.jpg'
      <<>>}, i \in Images}

StatusValues == {"resolved", "done"}

TicketUpdates ==
  { TicketUpdateRequest({"n2"}, {"l2"}, {"Plumbing"}, {
      <<"f","i","x","e","d">>   \* 'fixed'
      }, {"high"}, {}),
    TicketUpdateRequest({"n2"}, {}, {}, {}, {}, {"resolved"}),
    TicketUpdateRequest({}, {}, {}, {}, {}, {"done"}),
    TicketUpdateRequest({}, {}, {}, {}, {"urgent"}, {}),
    TicketUpdateRequest({}, {}, {}, {}, {}, {}) }

Init ==
  /\ users = <<>>
  /\ tokens = {}
  /\ tickets = {}
  /\ nextTicketId = 1
  /\ files = <<>>
  /\ now = 0
  /\ job = NoJob
  /\ req = NoRequest
  /\ response = NoResponse
  /\ calls = NoCalls

Next ==
  \/ \E body \in SignupRequests : Signup(body)
  \/ \E c \in Credentials, image \in Uploads : CreateTicket(c, "n1", "l1", image)
  \/ \E c \in Credentials : GetTickets(c)
  \/ \E c \in Credentials, id \in TicketIds : GetTicket(c, id)
  \/ \E c \in Credentials, id \in TicketIds, s \in StatusValues : UpdateTicketStatus(c, id, s)
  \/ \E c \in Credentials, id \in TicketIds, u \in TicketUpdates : UpdateTicket(c, id, u)
  \/ \E c \in Credentials, id \in TicketIds, remove_fails \in BOOLEAN :
       DeleteTicket(c, id, remove_fails)
  \/ Reply
  \/ Tick

Spec == Init /\ [][Next]_vars
----------------------------------------------------------------------------
(* Sessions: signup, login and the life of a token over a day *)

\* the seconds at which the session clock is observed: the first two, and the
\* two one day later
Instants ==
  {0, 1, ACCESS_TOKEN_EXPIRE_MINUTES * 60, ACCESS_TOKEN_EXPIRE_MINUTES * 60 + 1}

\* time passes between two requests, up to a later observed second
Sleep ==
  /\ req = NoRequest
  /\ \E t \in Instants : t > now /\ now' = t
  /\ UNCHANGED <<users, tokens, tickets, nextTicketId, files, job, req, response, calls>>

SessionSignups ==
  { [email |->
       <<"a","@","x",".","c","o","m">>   \* 'a@x.com'
       , password |->
       <<"s","e","c","r","e","t","1">>   \* 'secret1'
       , full_name |-> "u", role |-> "student"],
    [email |->
       <<"b","@","x",".","c","o","m">>   \* 'b@x.com'
       , password |->
       <<"s","e","c","r","e","t","2">>   \* 'secret2'
       , full_name |-> "u", role |-> "admin"],
    [email |->
       <<"b","@","x",".","c","o","m">>   \* 'b@x.com'
       , password |->
       <<"a","b","c">>   \* 'abc'
       , full_name |-> "u", role |-> "admin"] }

LoginRequests ==
  {[email |-> e, password |-> p] :
     e \in Emails,
     p \in {
       <<"s","e","c","r","e","t","1">>   \* 'secret1'
       ,
       <<"s","e","c","r","e","t","2">>   \* 'secret2'
       }}

SessionNext ==
  \/ \E body \in SessionSignups : Signup(body)
  \/ \E body \in LoginRequests : Login(body)
  \/ \E c \in Credentials : GetTickets(c)
  \/ \E c \in Credentials : UpdateTicketStatus(c, 1, "resolved")
  \/ Reply
  \/ Sleep

SessionSpec == Init /\ [][SessionNext]_vars
----------------------------------------------------------------------------
(* Administration: every status an admin can give a ticket *)

AdminUploads ==
  {[filename |->
      <<"B","r","o","k","e","n","_","F","a","n",".","j","p","g">>   \* 'Broken_Fan.jpg'
      , file |-> [kind |-> "text", text |->
      <<"C","e","i","l","i","n","g"," ","f","a","n"," ","b","l","a","d","e"," ","i","s"," ","s","e","v","e","r","e","l","y"," ","b","e","n","t"," ","a","n","d"," ","b","r","o","k","e","n">>   \* 'Ceiling fan blade is severely bent and broken'
      ]]}

\* the four statuses and a value that is none of them
AdminStatusValues == valid_statuses \cup {"done"}

AdminNext ==
  \/ \E body \in SessionSignups : Signup(body)
  \/ \E c \in Credentials, image \in AdminUploads : CreateTicket(c, "n1", "l1", image)
  \/ \E c \in Credentials, id \in TicketIds, s \in AdminStatusValues :
       UpdateTicketStatus(c, id, s)
  \/ \E c \in Credentials : GetTickets(c)
  \/ \E c \in Credentials, id \in TicketIds : GetTicket(c, id)
  \/ Reply

AdminSpec == Init /\ [][AdminNext]_vars
----------------------------------------------------------------------------
(* Worker processes: handlers whose statements interleave with those of      *)
(* another process on the same database and upload directory. A handler     *)
(* runs without yielding inside one process; MaxWorkers processes serve the *)
(* application side by side.                                                *)

Workers == 1..MaxWorkers

Idle == [pc |-> "idle"]

\* a call that has its response and is about to return it
Done(call, status_code, body) ==
  [pc |-> "done", op |-> call.op, request |-> call.request,
   response |-> Response(status_code, body)]

\* signup up to the SELECT: the body validators, then the existence test
signup_select(w, request) ==
  /\ calls[w] = Idle
  /\ LET call == [op |-> "signup", request |-> request] IN
       calls' = [calls EXCEPT ![w] =
         IF Len(request.password) < 6 \/ request.role \notin {"student", "admin"}
         THEN Done(call, 422, "validation error")
         ELSE IF \E i \in DOMAIN users : users[i].email = request.email
         THEN Done(call, 400, "Email already registered")
         ELSE [pc |-> "insert", op |-> "signup", request |-> request]]
  /\ UNCHANGED <<users, tokens, tickets, nextTicketId, files, now, job, req, response>>

\* signup from the INSERT on: the UNIQUE constraint on users.email makes the
\* INSERT raise when the row has appeared since the SELECT, and the handler's
\* `except Exception` answers 500; otherwise the row is committed and the
\* token issued as in signup
signup_insert(w) ==
  /\ calls[w].pc = "insert"
  /\ LET request == calls[w].request IN
       IF \E i \in DOMAIN users : users[i].email = request.email
       THEN /\ calls' = [calls EXCEPT ![w] =
                 Done(@, 500, "Signup failed: duplicate key value violates unique constraint")]
            /\ UNCHANGED <<users, tokens>>
       ELSE \E done \in {signup(request)} :
              /\ users' = done.users
              /\ tokens' = done.tokens
              /\ calls' = [calls EXCEPT ![w] =
                   Done(@, done.response.status_code, done.response.body)]
  /\ UNCHANGED <<tickets, nextTicketId, files, now, job, req, response>>

\* os.path.exists and os.remove inside try/except of delete_ticket without the
\* try/except: a failing os.remove leaves the block as an exception
remove_image_unguarded(image_path, remove_fails) ==
  IF image_path \notin DOMAIN files
  THEN [files |-> files, raised |-> FALSE, printed |-> "nothing"]
  ELSE IF remove_fails
  THEN [files |-> files, raised |-> TRUE, printed |-> "nothing"]
  ELSE [files |-> [p \in DOMAIN files \ {image_path} |-> files[p]],
        raised |-> FALSE, printed |-> "Deleted image file"]

\* `if image_path and os.path.exists(image_path): try: os.remove(image_path)
\* except Exception: print(Warning)`: the files left, whether an exception
\* leaves the block, and what is printed
remove_image(image_path, remove_fails) ==
  IF image_path \notin DOMAIN files
  THEN [files |-> files, raised |-> FALSE, printed |-> "nothing"]
  ELSE IF remove_fails
  THEN [files |-> files, raised |-> FALSE, printed |-> "Warning: Could not delete image file"]
  ELSE [files |-> [p \in DOMAIN files \ {image_path} |-> files[p]],
        raised |-> FALSE, printed |-> "Deleted image file"]

\* delete_ticket up to conn.commit(): the role test, the SELECT of image_path
\* and the DELETE, as in delete_ticket with the file not yet touched
delete_ticket_row(w, credentials, ticket_id) ==
  /\ calls[w] = Idle
  /\ LET call == [op |-> "delete_ticket",
                  request |-> [credentials |-> credentials, ticket_id |-> ticket_id]]
         done == delete_ticket(credentials, ticket_id, TRUE)
     IN IF done.response.status_code # 200
        THEN /\ calls' = [calls EXCEPT ![w] =
                  Done(call, done.response.status_code, done.response.body)]
             /\ UNCHANGED tickets
        ELSE /\ tickets' = done.tickets
             /\ calls' = [calls EXCEPT ![w] =
                  [pc |-> "remove", op |-> call.op, request |-> call.request,
                   image_path |-> (CHOOSE t \in tickets : t.id = ticket_id).image_path]]
  /\ UNCHANGED <<users, tokens, nextTicketId, files, now, job, req, response>>

\* delete_ticket after conn.commit(): the image file, then the response
delete_ticket_image(w, remove_fails) ==
  /\ calls[w].pc = "remove"
  /\ \E out \in {remove_image(calls[w].image_path, remove_fails)} :
       /\ files' = out.files
       /\ calls' = [calls EXCEPT ![w] =
            [pc |-> "done", op |-> @.op, request |-> @.request, printed |-> out.printed,
             response |->
               IF out.raised
               THEN Response(500, "Error deleting ticket")
               ELSE Response(200, [message |-> "Ticket deleted successfully",
                                   ticket_id |-> @.request.ticket_id])]]
  /\ UNCHANGED <<users, tokens, tickets, nextTicketId, now, job, req, response>>

\* the worker sends the response and is free again
worker_return(w) ==
  /\ calls[w].pc = "done"
  /\ calls' = [calls EXCEPT ![w] = Idle]
  /\ UNCHANGED <<users, tokens, tickets, nextTicketId, files, now, job, req, response>>

\* two signup bodies for one email
WorkerSignups ==
  { [email |->
       <<"a","@","x",".","c","o","m">>   \* 'a@x.com'
       , password |->
       <<"s","e","c","r","e","t","1">>   \* 'secret1'
       , full_name |-> "u", role |-> "admin"],
    [email |->
       <<"a","@","x",".","c","o","m">>   \* 'a@x.com'
       , password |->
       <<"s","e","c","r","e","t","2">>   \* 'secret2'
       , full_name |-> "v", role |-> "student"] }

WorkerInit ==
  /\ users = <<>>
  /\ tokens = {}
  /\ tickets = {}
  /\ nextTicketId = 1
  /\ files = <<>>
  /\ now = 0
  /\ job = NoJob
  /\ req = NoRequest
  /\ response = NoResponse
  /\ calls = [w \in Workers |-> Idle]

WorkerNext ==
  \/ \E w \in Workers, body \in WorkerSignups : signup_select(w, body)
  \/ \E w \in Workers : signup_insert(w)
  \/ \E c \in Credentials, image \in AdminUploads : CreateTicket(c, "n1", "l1", image)
  \/ Reply
  \/ \E w \in Workers, c \in Credentials, id \in TicketIds : delete_ticket_row(w, c, id)
  \/ \E w \in Workers, remove_fails \in BOOLEAN : delete_ticket_image(w, remove_fails)
  \/ \E w \in Workers : worker_return(w)

WorkerSpec == WorkerInit /\ [][WorkerNext]_vars
----------------------------------------------------------------------------
(* Accounts: every operation of the API, with addresses that differ in the  *)
(* case of their letters and signups that leave the role out                *)

AccountSignups ==
  { [email |->
       <<"a","@","x",".","c","o","m">>   \* 'a@x.com'
       , password |->
       <<"s","e","c","r","e","t","1">>   \* 'secret1'
       , full_name |-> "u"],
    [email |->
       <<"A","@","x",".","c","o","m">>   \* 'A@x.com'
       , password |->
       <<"s","e","c","r","e","t","1">>   \* 'secret1'
       , full_name |-> "v", role |-> "admin"],
    [email |->
       <<"a","@","X",".","C","O","M">>   \* 'a@X.COM'
       , password |->
       <<"s","e","c","r","e","t","1">>   \* 'secret1'
       , full_name |-> "w", role |-> "admin"],
    [email |->
       <<"b","@","x",".","c","o","m">>   \* 'b@x.com'
       , password |->
       <<"s","e","c","r","e","t","1">>   \* 'secret1'
       , full_name |-> "t", role |-> "teacher"] }

AccountLogins ==
  { [email |->
       <<"a","@","X",".","C","O","M">>   \* 'a@X.COM'
       , password |->
       <<"s","e","c","r","e","t","1">>   \* 'secret1'
       ],
    [email |->
       <<"A","@","x",".","c","o","m">>   \* 'A@x.com'
       , password |->
       <<"s","e","c","r","e","t","2">>   \* 'secret2'
       ] }

\* PATCH bodies carrying a status next to other fields, and one without
AccountUpdates ==
  { TicketUpdateRequest({"n2"}, {}, {}, {}, {}, {"resolved"}),
    TicketUpdateRequest({"n2"}, {}, {}, {}, {}, {"done"}),
    TicketUpdateRequest({}, {"l2"}, {}, {}, {"urgent"}, {"resolved"}),
    TicketUpdateRequest({"n2"}, {}, {}, {}, {"high"}, {}) }

get_current_user(credentials) ==
  LET user == verify_token(credentials, now) IN
    IF ~user.ok THEN Response(user.status_code, user.detail)
    ELSE IF user.user_id \notin DOMAIN users
    THEN Response(404, "User not found")
    ELSE Response(200, [id |-> user.user_id,
                        email |-> users[user.user_id].email,
                        full_name |-> users[user.user_id].full_name,
                        role |-> users[user.user_id].role])

GetCurrentUser(credentials) ==
  /\ req = NoRequest
  /\ req' = [op |-> "get_current_user", credentials |-> credentials]
  /\ response' = get_current_user(credentials)
  /\ UNCHANGED <<users, tokens, tickets, nextTicketId, files, now, job, calls>>

AccountNext ==
  \/ \E body \in AccountSignups : Signup(body)
  \/ \E body \in AccountLogins : Login(body)
  \/ \E c \in Credentials : GetCurrentUser(c)
  \/ \E c \in Credentials, image \in AdminUploads : CreateTicket(c, "n1", "l1", image)
  \/ \E c \in Credentials : GetTickets(c)
  \/ \E c \in Credentials : GetTicket(c, 1)
  \/ \E c \in Credentials : UpdateTicketStatus(c, 1, "resolved")
  \/ \E c \in Credentials, u \in AccountUpdates : UpdateTicket(c, 1, u)
  \/ \E c \in Credentials : DeleteTicket(c, 1, FALSE)
  \/ Reply

AccountSpec == Init /\ [][AccountNext]_vars
----------------------------------------------------------------------------
(* The service variant of src/main.py: its handlers carry the prefix main_  *)
(* where the name is taken by the handler of src/backend/main.py            *)

main_UPLOAD_DIR ==
  <<"u","p","l","o","a","d","s">>   \* 'uploads'

\* str.endswith
endswith(s, suffix) ==
  Len(s) >= Len(suffix) /\ SubSeq(s, Len(s) - Len(suffix) + 1, Len(s)) = suffix

\* pwd_context.hash: the digest stands for its input
main_get_password_hash(password) == [bcrypt |-> password]

\* jwt.encode at second t: the claims sub and id, signed with the service key
main_create_access_token(data, t) ==
  [sub |-> data.sub, id |-> data.id,
   exp |-> t + ACCESS_TOKEN_EXPIRE_MINUTES * 60, key |-> SECRET_KEY]

\* jwt.decode at second t, returning the payload. A token that fails for
\* another reason than its expiry reaches the clause `except jwt.JWTError`:
\* it answers 401 where the installed jwt module has that name, and the
\* lookup of the name fails (500) where it has not
main_verify_token(credentials, t, jwt_has_JWTError) ==
  IF credentials.key # SECRET_KEY
  THEN IF jwt_has_JWTError
       THEN [ok |-> FALSE, status_code |-> 401, detail |-> "Invalid token", id |-> 0]
       ELSE [ok |-> FALSE, status_code |-> 500, detail |-> "Internal Server Error", id |-> 0]
  ELSE IF credentials.exp <= t
  THEN [ok |-> FALSE, status_code |-> 401, detail |-> "Token has expired", id |-> 0]
  ELSE [ok |-> TRUE, status_code |-> 200, detail |-> "", id |-> credentials.id]

main_signup(user_data) ==
  IF ~endswith(user_data.email,
       <<"@","r","e","v","a",".","e","d","u",".","i","n">>   \* '@reva.edu.in'
       )
  THEN [users |-> users, tokens |-> tokens,
        response |-> Response(400, "Only @reva.edu.in emails are allowed")]
  ELSE IF \E i \in DOMAIN users : users[i].email = user_data.email
  THEN [users |-> users, tokens |-> tokens,
        response |-> Response(400, "Email already registered")]
  ELSE LET user_id == Len(users) + 1
           access_token == main_create_access_token([sub |-> user_data.email, id |-> user_id], now)
       IN [users |-> Append(users, [email |-> user_data.email,
                                    password_hash |-> main_get_password_hash(user_data.password),
                                    full_name |-> user_data.full_name,
                                    role |-> user_data.role]),
           tokens |-> tokens \cup {access_token},
           response |-> Response(200,
                          [access_token |-> access_token,
                           user |-> [id |-> user_id, email |-> user_data.email,
                                     full_name |-> user_data.full_name,
                                     role |-> user_data.role]])]

main_TicketResponse(ticket) ==
  [ticket_id |-> ticket.id, student_name |-> ticket.student_name,
   location |-> ticket.location, issue_type |-> ticket.issue_type,
   description |-> ticket.description, ticket_status |-> ticket.status,
   priority |-> ticket.priority, created_at |-> ticket.created_at]

main_create_ticket(credentials, student_name, location, image, jwt_has_JWTError) ==
  LET token_data == main_verify_token(credentials, now, jwt_has_JWTError) IN
    IF ~token_data.ok
    THEN [tickets |-> tickets, nextTicketId |-> nextTicketId, files |-> files,
          response |-> Response(token_data.status_code, token_data.detail)]
    ELSE IF image.filename = <<>>
    THEN [tickets |-> tickets, nextTicketId |-> nextTicketId, files |-> files,
          response |-> Response(400, "No image file provided")]
    ELSE
      LET image_path == upload_path(main_UPLOAD_DIR, now, image.filename)
          saved == [p \in DOMAIN files \cup {image_path} |->
                      IF p = image_path THEN image.file ELSE files[p]]
          final_state == invoke(initial_state(student_name, location, image_path), saved)
          ticket == [id |-> nextTicketId,
                     user_id |-> token_data.id,
                     student_name |-> student_name,
                     location |-> location,
                     issue_type |-> final_state.state.issue_type,
                     description |-> final_state.state.issue_detected,
                     image_path |-> image_path,
                     status |-> "pending",
                     created_at |-> now,
                     priority |-> final_state.state.priority]
      IN IF final_state.raised
         THEN [tickets |-> tickets, nextTicketId |-> nextTicketId, files |-> saved,
               response |-> Response(500, "Error processing request")]
         ELSE [tickets |-> tickets \cup {ticket}, nextTicketId |-> nextTicketId + 1,
               files |-> saved,
               response |-> Response(200, main_TicketResponse(ticket))]

\* SELECT * FROM tickets ORDER BY created_at DESC
get_all_tickets(credentials, jwt_has_JWTError) ==
  LET token_data == main_verify_token(credentials, now, jwt_has_JWTError)
      listed == order_by_created_at_desc(tickets)
  IN IF ~token_data.ok
     THEN Response(token_data.status_code, token_data.detail)
     ELSE Response(200, [i \in DOMAIN listed |-> main_TicketResponse(listed[i])])

\* SELECT * FROM tickets WHERE id = ?
main_get_ticket(ticket_id, credentials, jwt_has_JWTError) ==
  LET token_data == main_verify_token(credentials, now, jwt_has_JWTError)
      ticket == {t \in tickets : t.id = ticket_id}
  IN IF ~token_data.ok
     THEN Response(token_data.status_code, token_data.detail)
     ELSE IF ticket = {}
     THEN Response(404, "Ticket not found")
     ELSE Response(200, main_TicketResponse(CHOOSE t \in ticket : TRUE))

main_update_ticket_status(ticket_id, ticket_status, credentials, jwt_has_JWTError) ==
  LET token_data == main_verify_token(credentials, now, jwt_has_JWTError) IN
    IF ~token_data.ok
    THEN [tickets |-> tickets,
          response |-> Response(token_data.status_code, token_data.detail)]
    ELSE IF ticket_status \notin valid_statuses
    THEN [tickets |-> tickets, response |-> Response(400, "Invalid status")]
    ELSE IF \A t \in tickets : t.id # ticket_id
    THEN [tickets |-> tickets, response |-> Response(404, "Ticket not found")]
    ELSE [tickets |-> {IF t.id = ticket_id THEN [t EXCEPT !.status = ticket_status] ELSE t
                         : t \in tickets},
          response |-> Response(200,
                         [message |-> "Ticket status updated successfully",
                          ticket_id |-> ticket_id, status |-> ticket_status])]

MainSignup(body) ==
  /\ req = NoRequest
  /\ req' = [op |-> "signup", body |-> body]
  /\ \E done \in {main_signup(SignupRequest(body))} :
       /\ users' = done.users
       /\ tokens' = done.tokens
       /\ response' = done.response
  /\ UNCHANGED <<tickets, nextTicketId, files, now, job, calls>>

MainCreateTicket(credentials, student_name, location, image, jwt_has_JWTError) ==
  /\ req = NoRequest
  /\ nextTicketId <= MaxTickets
  /\ req' = [op |-> "create_ticket", credentials |-> credentials,
             student_name |-> student_name, location |-> location, image |-> image]
  /\ \E done \in {main_create_ticket(credentials, student_name, location, image,
                                     jwt_has_JWTError)} :
       /\ tickets' = done.tickets
       /\ nextTicketId' = done.nextTicketId
       /\ files' = done.files
       /\ response' = done.response
  /\ UNCHANGED <<users, tokens, now, job, calls>>

GetAllTickets(credentials, jwt_has_JWTError) ==
  /\ req = NoRequest
  /\ req' = [op |-> "get_all_tickets", credentials |-> credentials]
  /\ response' = get_all_tickets(credentials, jwt_has_JWTError)
  /\ UNCHANGED <<users, tokens, tickets, nextTicketId, files, now, job, calls>>

MainGetTicket(ticket_id, credentials, jwt_has_JWTError) ==
  /\ req = NoRequest
  /\ req' = [op |-> "get_ticket", credentials |-> credentials, ticket_id |-> ticket_id]
  /\ response' = main_get_ticket(ticket_id, credentials, jwt_has_JWTError)
  /\ UNCHANGED <<users, tokens, tickets, nextTicketId, files, now, job, calls>>

MainUpdateTicketStatus(ticket_id, ticket_status, credentials, jwt_has_JWTError) ==
  /\ req = NoRequest
  /\ req' = [op |-> "update_ticket_status", credentials |-> credentials,
             ticket_id |-> ticket_id, ticket_status |-> ticket_status]
  /\ \E done \in {main_update_ticket_status(ticket_id, ticket_status, credentials,
                                            jwt_has_JWTError)} :
       /\ tickets' = done.tickets
       /\ response' = done.response
  /\ UNCHANGED <<users, tokens, nextTicketId, files, now, job, calls>>

MainSignups ==
  { [email |->
       <<"a","@","r","e","v","a",".","e","d","u",".","i","n">>   \* 'a@reva.edu.in'
       , password |->
       <<"s","e","c","r","e","t","1">>   \* 'secret1'
       , full_name |-> "u"],
    [email |->
       <<"b","@","r","e","v","a",".","e","d","u",".","i","n">>   \* 'b@reva.edu.in'
       , password |->
       <<"s","e","c","r","e","t","1">>   \* 'secret1'
       , full_name |-> "v", role |-> "student"],
    [email |->
       <<"c","@","r","e","v","a",".","e","d","u",".","i","n">>   \* 'c@reva.edu.in'
       , password |->
       <<"s","e","c","r","e","t","1">>   \* 'secret1'
       , full_name |-> "w", role |-> "admin"],
    [email |->
       <<"a","@","x",".","c","o","m">>   \* 'a@x.com'
       , password |->
       <<"s","e","c","r","e","t","1">>   \* 'secret1'
       , full_name |-> "u"] }

\* a token signed with another key
MainForgedToken ==
  [sub |-> <<>>, id |-> 1, exp |-> ACCESS_TOKEN_EXPIRE_MINUTES * 60, key |-> "another-key"]

MainCredentials == tokens \cup {MainForgedToken}

MainNext ==
  \/ \E body \in MainSignups : MainSignup(body)
  \/ \E c \in MainCredentials, image \in AdminUploads, lib \in BOOLEAN :
       MainCreateTicket(c, "n1", "l1", image, lib)
  \/ \E c \in MainCredentials, lib \in BOOLEAN : GetAllTickets(c, lib)
  \/ \E c \in MainCredentials, id \in TicketIds, lib \in BOOLEAN : MainGetTicket(id, c, lib)
  \/ \E c \in MainCredentials, lib \in BOOLEAN :
       MainUpdateTicketStatus(1, "resolved", c, lib)
  \/ Reply

MainSpec == Init /\ [][MainNext]_vars
----------------------------------------------------------------------------
(* update_ticket statement by statement in one worker process, next to      *)
(* delete_ticket in another                                                 *)

\* update_ticket up to the UPDATE: the body validators, the two SELECTs and
\* the tests on them, with nothing written yet; ticket_owner_id is the local
\* of that name
update_ticket_select(w, credentials, ticket_id, ticket_update) ==
  /\ calls[w] = Idle
  /\ LET call == [op |-> "update_ticket",
                  request |-> [credentials |-> credentials, ticket_id |-> ticket_id,
                               ticket_update |-> ticket_update]]
         done == update_ticket(credentials, ticket_id, ticket_update)
     IN calls' = [calls EXCEPT ![w] =
          IF done.response.status_code # 200
          THEN Done(call, done.response.status_code, done.response.body)
          ELSE [pc |-> "update", op |-> call.op, request |-> call.request,
                ticket_owner_id |-> (CHOOSE t \in tickets : t.id = ticket_id).user_id]]
  /\ UNCHANGED <<users, tokens, tickets, nextTicketId, files, now, job, req, response>>

\* UPDATE tickets SET ... WHERE id = ? and conn.commit(): the row of that id
\* gets the supplied fields; where the row has gone since the SELECT, the
\* statement matches no row and raises nothing
update_ticket_commit(w) ==
  /\ calls[w].pc = "update"
  /\ LET request == calls[w].request IN
       tickets' = {IF t.id = request.ticket_id
                   THEN CHOOSE u \in update_ticket(request.credentials, request.ticket_id,
                                                   request.ticket_update).tickets :
                          u.id = t.id
                   ELSE t : t \in tickets}
  /\ calls' = [calls EXCEPT ![w] = [@ EXCEPT !.pc = "reselect"]]
  /\ UNCHANGED <<users, tokens, nextTicketId, files, now, job, req, response>>

\* the SELECT of the row after the commit and TicketResponse(id=ticket[0], ...):
\* where the row has gone, fetchone() is None, ticket[0] raises TypeError and
\* the handler's `except Exception` answers 500
update_ticket_reselect(w) ==
  /\ calls[w].pc = "reselect"
  /\ LET ticket == {t \in tickets : t.id = calls[w].request.ticket_id} IN
       calls' = [calls EXCEPT ![w] =
         [pc |-> "done", op |-> @.op, request |-> @.request,
          ticket_owner_id |-> @.ticket_owner_id,
          response |->
            IF ticket = {}
            THEN Response(500,
                   "Error updating ticket: 'NoneType' object is not subscriptable")
            ELSE Response(200, TicketResponse(CHOOSE t \in ticket : TRUE))]]
  /\ UNCHANGED <<users, tokens, tickets, nextTicketId, files, now, job, req, response>>

RaceUpdates ==
  { TicketUpdateRequest({"n2"}, {}, {}, {}, {}, {}) }

RaceNext ==
  \/ \E body \in SessionSignups : Signup(body)
  \/ \E c \in Credentials, image \in AdminUploads : CreateTicket(c, "n1", "l1", image)
  \/ Reply
  \/ \E w \in Workers, c \in Credentials, u \in RaceUpdates : update_ticket_select(w, c, 1, u)
  \/ \E w \in Workers : update_ticket_commit(w)
  \/ \E w \in Workers : update_ticket_reselect(w)
  \/ \E w \in Workers, c \in Credentials : delete_ticket_row(w, c, 1)
  \/ \E w \in Workers : delete_ticket_image(w, FALSE)
  \/ \E w \in Workers : worker_return(w)

RaceSpec == WorkerInit /\ [][RaceNext]_vars

----------------------------------------------------------------------------
(* Properties of the classification workflow (checked under PipeSpec) *)

\* the keyword lists as the specification states them
SpecLowKeywords ==
  { <<"n","o"," ","m","a","i","n","t","e","n","a","n","c","e"," ","i","s","s","u","e","s">>,   \* 'no maintenance issues'
    <<"n","o"," ","i","s","s","u","e","s">>,   \* 'no issues'
    <<"n","o"," ","v","i","s","i","b","l","e"," ","i","s","s","u","e","s">>,   \* 'no visible issues'
    <<"m","i","n","o","r">>,   \* 'minor'
    <<"s","l","i","g","h","t">> }   \* 'slight'

SpecCriticalKeywords ==
  { <<"s","e","v","e","r","e","l","y">>,   \* 'severely'
    <<"b","r","o","k","e","n">>,   \* 'broken'
    <<"d","a","m","a","g","e","d">>,   \* 'damaged'
    <<"f","i","r","e">>,   \* 'fire'
    <<"s","p","a","r","k","i","n","g">>,   \* 'sparking'
    <<"d","a","n","g","e","r","o","u","s">>,   \* 'dangerous'
    <<"h","a","z","a","r","d">>,   \* 'hazard'
    <<"c","a","t","a","s","t","r","o","p","h","i","c">>,   \* 'catastrophic'
    <<"m","a","j","o","r">>,   \* 'major'
    <<"s","h","a","t","t","e","r","e","d">> }   \* 'shattered'

SpecMediumKeywords ==
  { <<"n","o","t"," ","w","o","r","k","i","n","g">>,   \* 'not working'
    <<"m","a","l","f","u","n","c","t","i","o","n","i","n","g">>,   \* 'malfunctioning'
    <<"c","r","a","c","k","e","d">>,   \* 'cracked'
    <<"b","e","n","t">>,   \* 'bent'
    <<"l","o","o","s","e">>,   \* 'loose'
    <<"l","e","a","k","i","n","g">> }   \* 'leaking'

SpecTypeGroups ==
  << [type |-> "Fan", keywords |-> {
        <<"f","a","n">>   \* 'fan'
        }],
     [type |-> "Light", keywords |-> {
        <<"l","i","g","h","t">>,   \* 'light'
        <<"b","u","l","b">>,   \* 'bulb'
        <<"l","a","m","p">>   \* 'lamp'
        }],
     [type |-> "Furniture", keywords |-> {
        <<"f","u","r","n","i","t","u","r","e">>,   \* 'furniture'
        <<"c","h","a","i","r">>,   \* 'chair'
        <<"t","a","b","l","e">>,   \* 'table'
        <<"d","e","s","k">>   \* 'desk'
        }],
     [type |-> "Electronics", keywords |-> {
        <<"e","l","e","c","t","r","o","n","i","c","s">>,   \* 'electronics'
        <<"c","o","m","p","u","t","e","r">>,   \* 'computer'
        <<"s","c","r","e","e","n">>   \* 'screen'
        }],
     [type |-> "Electrical", keywords |-> {
        <<"e","l","e","c","t","r","i","c","a","l">>,   \* 'electrical'
        <<"w","i","r","e">>,   \* 'wire'
        <<"s","o","c","k","e","t">>   \* 'socket'
        }] >>

Mentions(keywords, text) == \E k \in keywords : contains(k, lower(text))

MatchingGroups(text) ==
  {i \in DOMAIN SpecTypeGroups : Mentions(SpecTypeGroups[i].keywords, text)}

EarliestGroup(text) ==
  IF MatchingGroups(text) = {} THEN "Other"
  ELSE SpecTypeGroups[CHOOSE i \in MatchingGroups(text) :
                        \A j \in MatchingGroups(text) : i <= j].type

\* stage 2 has run on the stage-1 summary of the run in flight
Classified == Len(job.ran) >= 2

Summary == job.state.issue_detected

FanExample ==
  <<"C","e","i","l","i","n","g"," ","f","a","n"," ","b","l","a","d","e"," ","i","s"," ","s","e","v","e","r","e","l","y"," ","b","e","n","t"," ","a","n","d"," ","b","r","o","k","e","n">>   \* 'Ceiling fan blade is severely bent and broken'

\* C1: a summary that mentions a low-priority keyword and a critical keyword
\* is given priority low.
C1_LowBeatsCritical ==
  (Classified /\ Mentions(SpecLowKeywords, Summary) /\ Mentions(SpecCriticalKeywords, Summary))
    => job.state.priority = "low"

C1_Witness ==
  /\ Classified
  /\ Mentions(SpecLowKeywords, Summary)
  /\ Mentions(SpecCriticalKeywords, Summary)
  /\ job.state.priority = "low"

\* C2: issue_type is the type of the earliest keyword group, in the order Fan,
\* Light, Furniture, Electronics, Electrical, that the summary mentions in any
\* letter case, and Other when it mentions none.
C2_TypeIsEarliestGroup ==
  Classified => job.state.issue_type = EarliestGroup(Summary)

C2_Witness ==
  /\ Classified
  /\ Cardinality(MatchingGroups(Summary)) >= 2
  /\ Summary # lower(Summary)
  /\ job.state.issue_type = "Fan"
  /\ 2 \in MatchingGroups(Summary)

\* C3: without a low-priority keyword the priority is high when a critical
\* keyword is mentioned, else medium when a medium keyword is mentioned, else
\* low; the fan example is classified Fan / high.
C3_PriorityWithoutLowKeyword ==
  /\ (Classified /\ ~Mentions(SpecLowKeywords, Summary))
       => job.state.priority =
            IF Mentions(SpecCriticalKeywords, Summary) THEN "high"
            ELSE IF Mentions(SpecMediumKeywords, Summary) THEN "medium"
            ELSE "low"
  /\ (Classified /\ Summary = FanExample)
       => (job.state.issue_type = "Fan" /\ job.state.priority = "high")

C3_Witness ==
  /\ Classified
  /\ Summary = FanExample
  /\ Mentions(SpecMediumKeywords, Summary)
  /\ job.state.issue_type = "Fan"
  /\ job.state.priority = "high"

IsPrefix(s, t) == Len(s) <= Len(t) /\ SubSeq(t, 1, Len(s)) = s

\* stage 1 ran while no file was stored at image_path
InspectedMissingImage ==
  Len(job.ran) >= 1 /\ job.state.image_path \notin DOMAIN files

\* C4: when no file exists at image_path, stage 1 returns an "Image not found"
\* string without raising, and stage 2 classifies it Other / low.
C4_MissingImageIsOtherLow ==
  /\ job.node # "raised"
  /\ InspectedMissingImage
       => /\ IsPrefix(
               <<"E","r","r","o","r",":"," ","I","m","a","g","e"," ","n","o","t"," ","f","o","u","n","d">>,   \* 'Error: Image not found'
               Summary)
          /\ Classified => (job.state.issue_type = "Other" /\ job.state.priority = "low")

\* the part of C4 that holds: the result string names the missing image, no
\* exception leaves stage 1
C4_MissingImageIsReported ==
  /\ job.node # "raised"
  /\ InspectedMissingImage
       => IsPrefix(
            <<"E","r","r","o","r",":"," ","I","m","a","g","e"," ","n","o","t"," ","f","o","u","n","d"," ","a","t"," ">>,   \* 'Error: Image not found at '
            Summary)

StageOrder == <<"analyze_image", "classify_issue", "create_ticket">>

\* C5: every run executes Inspect, Classify, Finalize once each in that order
\* and ends with ticket_created set and issue_detected, issue_type and priority
\* all filled in.
C5_RunsAllStagesAndFillsState ==
  /\ job.node # "raised"
  /\ IsPrefix(job.ran, StageOrder)
  /\ job.node = "END"
       => /\ job.ran = StageOrder
          /\ job.state.ticket_created
          /\ job.state.issue_detected # <<>>
          /\ job.state.issue_type # ""
          /\ job.state.priority # ""

\* the part of C5 that holds: the stages run once each, in order, and the
\* final state has ticket_created, an issue type and a priority
C5_RunsAllStages ==
  /\ job.node # "raised"
  /\ IsPrefix(job.ran, StageOrder)
  /\ job.node = "END"
       => /\ job.ran = StageOrder
          /\ job.state.ticket_created
          /\ job.state.issue_type \in IssueTypes
          /\ job.state.priority \in Priorities

\* every run reaches END (the graph has no cycle and no node blocks)
PipeFairSpec == PipeSpec /\ WF_vars(PipeNext)

C5_RunTerminates == <>(job.node = "END")
----------------------------------------------------------------------------
(* Claims about the ticket endpoints, stated on the request being answered  *)
(* and its response                                                         *)

\* the caller of the request being answered holds a valid token
Authenticated ==
  req.op \notin {"none", "signup", "login"} /\ verify_token(req.credentials, now).ok

Caller == verify_token(req.credentials, now).user_id

CallerIsAdmin == role_of(Caller) = <<"admin">>

\* the same about the request taken by the step
AuthenticatedNext ==
  req'.op \notin {"none", "signup", "login"} /\ verify_token(req'.credentials, now).ok

CallerNext == verify_token(req'.credentials, now).user_id

CallerNextIsAdmin == role_of(CallerNext) = <<"admin">>

Takes(op) == req = NoRequest /\ req'.op = op

ClassifierFails(image) == image.file.kind \in {"raises", "unidentified"}

\* C6: a create_ticket request whose classifier call fails is answered 200 and
\* adds exactly one ticket row, whose description is the captured
\* "Error occurred: ..." string; no other row changes
C6_ClassifierFailureStillCreatesTicket ==
  [][(Takes("create_ticket") /\ AuthenticatedNext /\ req'.image.filename # <<>>
        /\ ClassifierFails(req'.image))
     => /\ response'.status_code = 200
        /\ tickets \subseteq tickets'
        /\ Cardinality(tickets' \ tickets) = 1
        /\ \A t \in tickets' \ tickets :
             /\ t.id = response'.body.id
             /\ t.user_id = CallerNext
             /\ IsPrefix(
                  <<"E","r","r","o","r"," ","o","c","c","u","r","r","e","d",":"," ">>   \* 'Error occurred: '
                  , t.description)
             /\ response'.body.description = t.description]_vars

C6_Witness ==
  /\ req.op = "create_ticket"
  /\ ClassifierFails(req.image)
  /\ response.status_code = 200
  /\ \E t \in tickets :
       /\ t.id = response.body.id
       /\ t.description =
            <<"E","r","r","o","r"," ","o","c","c","u","r","r","e","d",":"," ","4","2","9"," ","q","u","o","t","a"," ","e","x","c","e","e","d","e","d">>   \* 'Error occurred: 429 quota exceeded'

\* C7: get_tickets answers an admin with every ticket row, and any other
\* caller with exactly the rows whose user_id is the caller's
C7_ListIsAllForAdminOwnForOthers ==
  (req.op = "get_tickets" /\ Authenticated)
    => /\ response.status_code = 200
       /\ LET rows == IF CallerIsAdmin THEN tickets
                      ELSE {t \in tickets : t.user_id = Caller}
          IN /\ Len(response.body) = Cardinality(rows)
             /\ {response.body[i] : i \in DOMAIN response.body}
                  = {TicketResponse(t) : t \in rows}

C7_Witness ==
  /\ req.op = "get_tickets"
  /\ Authenticated
  /\ ~CallerIsAdmin
  /\ \E t \in tickets : t.user_id = Caller
  /\ \E t \in tickets : t.user_id # Caller
  /\ Len(response.body) = 1

\* C8: get_ticket answers a non-admin caller asking for a ticket of another
\* user with 404 or 403 and an error detail, never with the ticket
C8_OthersTicketIsNotServed ==
  (req.op = "get_ticket" /\ Authenticated /\ ~CallerIsAdmin
     /\ \E t \in tickets : t.id = req.ticket_id /\ t.user_id # Caller)
    => /\ response.status_code \in {403, 404}
       /\ response.body = "Ticket not found"

C8_Witness ==
  /\ req.op = "get_ticket"
  /\ Authenticated
  /\ ~CallerIsAdmin
  /\ \E t \in tickets : t.id = req.ticket_id /\ t.user_id # Caller
  /\ response.status_code = 404

StatusChanged == \E t \in tickets, u \in tickets' : t.id = u.id /\ t.status # u.status

\* the part of C9 that does not depend on the request body: only an admin's
\* request changes a status, and update_ticket_status with a valid status
\* answers any other caller 403 and writes nothing
StatusIsAdminOnly ==
  /\ StatusChanged
       => /\ req'.op \in {"update_ticket_status", "update_ticket"}
          /\ AuthenticatedNext
          /\ CallerNextIsAdmin
  /\ (Takes("update_ticket_status") /\ AuthenticatedNext /\ ~CallerNextIsAdmin
        /\ req'.ticket_status \in valid_statuses)
       => response'.status_code = 403 /\ tickets' = tickets

\* C9 as stated: update_ticket carrying any status field answers a non-admin
\* caller 403
C9_StatusRequestsOfNonAdminsGet403 ==
  [][/\ StatusIsAdminOnly
     /\ (Takes("update_ticket") /\ AuthenticatedNext /\ ~CallerNextIsAdmin
           /\ req'.ticket_update.status # {})
          => response'.status_code = 403 /\ tickets' = tickets]_vars

\* C9: a status changes only by an admin's request; for a non-admin caller,
\* update_ticket_status with a valid status answers 403, and so does update_ticket
\* for an existing ticket with a body that passes validation and carries a
\* status; a non-admin's update_ticket carrying a status never writes
C9_StatusChangesOnlyByAdmin ==
  [][/\ StatusIsAdminOnly
     /\ (Takes("update_ticket") /\ AuthenticatedNext /\ ~CallerNextIsAdmin
           /\ req'.ticket_update.status # {})
          => /\ tickets' = tickets
             /\ (validate_ticket_update(req'.ticket_update)
                   /\ \E t \in tickets : t.id = req'.ticket_id)
                  => response'.status_code = 403]_vars

C9_Witness ==
  /\ req.op = "update_ticket"
  /\ Authenticated
  /\ ~CallerIsAdmin
  /\ req.ticket_update.status = {"resolved"}
  /\ \E t \in tickets : t.id = req.ticket_id /\ t.user_id = Caller /\ t.status = "pending"
  /\ response.status_code = 403
  /\ response.body = "Only admins can update ticket status"

RowRemoved == \E t \in tickets : \A u \in tickets' : u.id # t.id

\* C10: a ticket row is removed only by an admin's delete_ticket; delete_ticket
\* answers any other caller 403 and removes neither a row nor a file
C10_DeleteIsAdminOnly ==
  [][/\ RowRemoved
          => req'.op = "delete_ticket" /\ AuthenticatedNext /\ CallerNextIsAdmin
     /\ (Takes("delete_ticket") /\ AuthenticatedNext /\ ~CallerNextIsAdmin)
          => /\ response'.status_code = 403
             /\ tickets' = tickets
             /\ files' = files]_vars

C10_Witness ==
  /\ req.op = "delete_ticket"
  /\ Authenticated
  /\ ~CallerIsAdmin
  /\ \E t \in tickets :
       t.id = req.ticket_id /\ t.user_id = Caller /\ t.image_path \in DOMAIN files
  /\ response.status_code = 403
----------------------------------------------------------------------------
(* Claims about who writes a ticket and what a ticket row may hold *)

TicketExists(ticket_id) == \E t \in tickets : t.id = ticket_id

\* the caller of the request taken by the step owns the ticket or is an admin
CallerNextMayEdit(ticket_id) ==
  \/ CallerNextIsAdmin
  \/ \E t \in tickets : t.id = ticket_id /\ t.user_id = CallerNext

FieldsOf(t) == <<t.student_name, t.location, t.issue_type, t.description, t.priority>>

FieldsChanged == \E t \in tickets, u \in tickets' : t.id = u.id /\ FieldsOf(t) # FieldsOf(u)

FiveFields == {"student_name", "location", "issue_type", "description", "priority"}

\* the row of ticket_id holds every supplied field among `fields` after the
\* step, and every other row is as before
Written(ticket_id, ticket_update, fields) ==
  /\ \A u \in tickets' : u.id = ticket_id =>
       \A f \in fields : ticket_update[f] # {} => ticket_update[f] = {u[f]}
  /\ \A t \in tickets : t.id # ticket_id => t \in tickets'

FieldsChangeOnlyByOwnerOrAdmin ==
  FieldsChanged
    => /\ req'.op = "update_ticket"
       /\ AuthenticatedNext
       /\ CallerNextMayEdit(req'.ticket_id)

\* C11 as stated: on an existing ticket, update_ticket answers a caller who is
\* neither owner nor admin 403, and writes the supplied fields for the owner
\* or an admin
C11_OthersGet403OwnerAndAdminWrite ==
  [][/\ FieldsChangeOnlyByOwnerOrAdmin
     /\ (Takes("update_ticket") /\ AuthenticatedNext /\ TicketExists(req'.ticket_id))
          => IF CallerNextMayEdit(req'.ticket_id)
             THEN Written(req'.ticket_id, req'.ticket_update, FiveFields)
             ELSE response'.status_code = 403 /\ tickets' = tickets]_vars

\* C11: the five fields of a ticket change only by update_ticket of its owner
\* or an admin; on an existing ticket any other caller leaves it unchanged and
\* is answered 403 when the body passes validation; the owner or an admin gets
\* the supplied fields written when the body passes validation, names a field
\* and names status only for an admin, and otherwise nothing is written
C11_FieldsWrittenOnlyByOwnerOrAdmin ==
  [][/\ FieldsChangeOnlyByOwnerOrAdmin
     /\ (Takes("update_ticket") /\ AuthenticatedNext /\ TicketExists(req'.ticket_id))
          => LET body == req'.ticket_update
                 accepted == /\ validate_ticket_update(body)
                             /\ \E f \in DOMAIN body : body[f] # {}
                             /\ body.status # {} => CallerNextIsAdmin
             IN IF ~CallerNextMayEdit(req'.ticket_id)
                THEN /\ tickets' = tickets
                     /\ validate_ticket_update(body) => response'.status_code = 403
                ELSE IF accepted
                THEN response'.status_code = 200 /\ Written(req'.ticket_id, body, FiveFields \cup {"status"})
                ELSE response'.status_code \in {400, 403, 422} /\ tickets' = tickets]_vars

\* the owner, not an admin, has renamed the ticket and moved it
C11_Witness ==
  /\ req.op = "update_ticket"
  /\ Authenticated
  /\ ~CallerIsAdmin
  /\ response.status_code = 200
  /\ \E t \in tickets :
       /\ t.id = req.ticket_id
       /\ t.user_id = Caller
       /\ FieldsOf(t) = <<"n2", "l2", "Plumbing",
            <<"f","i","x","e","d">>   \* 'fixed'
            , "high">>

\* C12: create_ticket serves every authenticated caller, whatever the stored
\* role, and the row it adds is owned by the user_id of the caller's token
C12_CreatedTicketIsOwnedByCaller ==
  [][/\ (Takes("create_ticket") /\ AuthenticatedNext /\ req'.image.filename # <<>>)
          => /\ response'.status_code = 200
             /\ \E t \in tickets' \ tickets : t.id = response'.body.id
     /\ \A t \in tickets' : (\A u \in tickets : u.id # t.id)
          => /\ req'.op = "create_ticket"
             /\ AuthenticatedNext
             /\ t.user_id = CallerNext]_vars

\* the second user, an admin, has created a ticket
C12_Witness ==
  /\ req.op = "create_ticket"
  /\ Authenticated
  /\ Caller = 2
  /\ CallerIsAdmin
  /\ response.status_code = 200
  /\ \E t \in tickets : t.id = response.body.id /\ t.user_id = 2

StatusWrittenByNext ==
  \/ Takes("update_ticket_status") /\ req'.ticket_status \notin valid_statuses
  \/ Takes("update_ticket") /\ ~(req'.ticket_update.status \subseteq valid_statuses)

\* C18: every row's status is one of valid_statuses, a new row's status is
\* pending, and update_ticket_status and update_ticket carrying a status
\* outside valid_statuses are answered 400 and 422 and write nothing
C18_StatusIsValid ==
  [][/\ \A t \in tickets' : t.status \in valid_statuses
     /\ \A t \in tickets' : (\A u \in tickets : u.id # t.id) => t.status = "pending"
     /\ (StatusWrittenByNext /\ AuthenticatedNext)
          => /\ response'.status_code = IF req'.op = "update_ticket_status" THEN 400 ELSE 422
             /\ tickets' = tickets]_vars

\* an admin's update_ticket carrying status "done" on an existing ticket
C18_Witness ==
  /\ req.op = "update_ticket"
  /\ Authenticated
  /\ CallerIsAdmin
  /\ req.ticket_update.status = {"done"}
  /\ TicketExists(req.ticket_id)
  /\ response.status_code = 422
  /\ \A t \in tickets : t.status \in valid_statuses

\* C19: every row's issue_type is one of Fan, Light, Furniture, Electronics,
\* Electrical, Other
C19_IssueTypeIsClassified ==
  \A t \in tickets : t.issue_type \in IssueTypes

\* what holds of issue_type: create_ticket stores one of IssueTypes
C19_CreatedIssueTypeIsClassified ==
  (req.op = "create_ticket" /\ response.status_code = 200)
    => response.body.issue_type \in IssueTypes
----------------------------------------------------------------------------
(* Claims about signup, login and tokens *)

\* the users row a login request names with the right password, if any
Matching(body) ==
  {i \in DOMAIN users :
     users[i].email = body.email /\ users[i].password_hash = get_password_hash(body.password)}

ValidSignup(body) == Len(body.password) >= 6 /\ body.role \in {"student", "admin"}

Registered(email) == \E i \in DOMAIN users : users[i].email = email

\* C15: a valid signup with an unregistered email succeeds, its row and its
\* token carry the same new user id; from then on a login with the same
\* email and password succeeds with a token that verify_token decodes to
\* that user id
C15_LoginAfterSignupGivesTheSameUser ==
  [][/\ (Takes("signup") /\ ValidSignup(req'.body) /\ ~Registered(req'.body.email))
          => /\ response'.status_code = 200
             /\ Len(users') = Len(users) + 1
             /\ response'.body.access_token.user_id = Len(users')
             /\ response'.body.user.id = Len(users')
             /\ users'[Len(users')].email = req'.body.email
             /\ verify_password(req'.body.password, users'[Len(users')].password_hash)
     /\ (Takes("login") /\ Matching(req'.body) # {})
          => /\ response'.status_code = 200
             /\ {response'.body.access_token.user_id} = Matching(req'.body)
             /\ verify_token(response'.body.access_token, now).ok
             /\ {verify_token(response'.body.access_token, now).user_id} = Matching(req'.body)
     /\ \A i \in DOMAIN users : i \in DOMAIN users' /\ users'[i] = users[i]]_vars

\* the second user logs in a day after signing up
C15_Witness ==
  /\ req.op = "login"
  /\ Matching(req.body) = {2}
  /\ now >= ACCESS_TOKEN_EXPIRE_MINUTES * 60
  /\ response.status_code = 200
  /\ response.body.access_token.user_id = 2
  /\ \E tok \in tokens : tok.user_id = 2 /\ tok.exp = ACCESS_TOKEN_EXPIRE_MINUTES * 60

\* C16: a login with an unregistered email and a login with a wrong password
\* are both answered 401 "Invalid credentials", and neither issues a token
C16_FailedLoginsAreAlike ==
  [][(Takes("login") /\ Matching(req'.body) = {})
       => /\ response'.status_code = 401
          /\ response'.body = "Invalid credentials"
          /\ tokens' = tokens]_vars

\* both kinds of failed login have been answered: this one names a registered
\* email with a wrong password while another email is still unregistered
C16_Witness ==
  /\ req.op = "login"
  /\ Registered(req.body.email)
  /\ Matching(req.body) = {}
  /\ \E e \in Emails : ~Registered(e)
  /\ response.status_code = 401

TwentyFourHours == 24 * 60 * 60

Accepted(tok, t) == verify_token(tok, t).ok

\* C17: a token is issued with exp 24 hours after the second of issue, by
\* signup and login alone; verify_token accepts it at every second before exp
\* and rejects it 401 "Token has expired" at every second after; a token signed
\* with another key is rejected 401 "Invalid token"; no step takes an unexpired
\* token away, and a request is answered 401 exactly when its token is rejected
C17_TokenLivesTwentyFourHours ==
  [][/\ \A tok \in tokens' \ tokens :
          /\ req'.op \in {"signup", "login"}
          /\ tok.exp = now + TwentyFourHours
          /\ tok = response'.body.access_token
     /\ \A tok \in tokens' :
          /\ now' < tok.exp => Accepted(tok, now')
          /\ now' > tok.exp =>
               /\ ~Accepted(tok, now')
               /\ verify_token(tok, now').status_code = 401
               /\ verify_token(tok, now').detail = "Token has expired"
     /\ \A tok \in tokens : tok \in tokens'
     /\ \A t \in Instants :
          /\ ~Accepted(ForgedToken, t)
          /\ verify_token(ForgedToken, t).detail = "Invalid token"
     /\ (req = NoRequest /\ req'.op \in {"get_tickets", "update_ticket_status"})
          => (response'.status_code = 401 <=> ~Accepted(req'.credentials, now))]_vars

\* at the last second of its day a token is served, while an older one has
\* expired
C17_Witness ==
  /\ req.op = "get_tickets"
  /\ req.credentials \in tokens
  /\ req.credentials.exp = now + 1
  /\ response.status_code = 200
  /\ \E tok \in tokens : ~Accepted(tok, now) /\ tok.user_id = req.credentials.user_id
----------------------------------------------------------------------------
(* Claims about the status an admin gives a ticket *)

\* C20: update_ticket_status of an admin with any of the four statuses on an
\* existing ticket, whatever its status, is answered 200 and leaves the row
\* with that status and nothing else changed; get_tickets and get_ticket
\* answer with the stored rows, status included
C20_AdminSetsAnyStatus ==
  [][/\ (Takes("update_ticket_status") /\ AuthenticatedNext /\ CallerNextIsAdmin
           /\ TicketExists(req'.ticket_id) /\ req'.ticket_status \in valid_statuses)
          => /\ response'.status_code = 200
             /\ response'.body.status = req'.ticket_status
             /\ tickets' = {IF t.id = req'.ticket_id
                            THEN [t EXCEPT !.status = req'.ticket_status] ELSE t : t \in tickets}
     /\ (Takes("get_tickets") /\ response'.status_code = 200)
          => \A i \in DOMAIN response'.body :
               \E t \in tickets : response'.body[i] = TicketResponse(t)
     /\ (Takes("get_ticket") /\ response'.status_code = 200)
          => \E t \in tickets : t.id = req'.ticket_id /\ response'.body = TicketResponse(t)
     /\ (Takes("get_tickets") /\ AuthenticatedNext /\ CallerNextIsAdmin)
          => \A t \in tickets : \E i \in DOMAIN response'.body :
               response'.body[i].id = t.id /\ response'.body[i].status = t.status]_vars

\* an admin has put a student's ticket to pending, its first status: the
\* status was pending already or this is a backward move
C20_Witness ==
  /\ req.op = "update_ticket_status"
  /\ Authenticated
  /\ CallerIsAdmin
  /\ req.ticket_status = "pending"
  /\ response.status_code = 200
  /\ \E t \in tickets : t.id = req.ticket_id /\ t.user_id # Caller /\ t.status = "pending"
  /\ \E t \in tickets : t.status = "closed"
----------------------------------------------------------------------------
(* Claims about handlers running in several worker processes *)

Deleting(w) == calls[w] # Idle /\ calls[w].op = "delete_ticket"

\* C13: delete_ticket of an admin removes the row and commits before it
\* touches the file; then it removes the file when it is there and os.remove
\* does not raise; whether the file was there, was removed, or os.remove
\* raised, the answer is 200 and the row stays removed
C13_RowThenImageBestEffort ==
  [][\A w \in Workers :
       /\ (calls[w] = Idle /\ calls'[w].pc = "remove")
            => /\ TicketExists(calls'[w].request.ticket_id)
               /\ \A t \in tickets' : t.id # calls'[w].request.ticket_id
               /\ files' = files
       /\ (calls[w].pc = "remove" /\ calls'[w] # calls[w])
            => /\ calls'[w].pc = "done"
               /\ calls'[w].response.status_code = 200
               /\ tickets' = tickets
               /\ \A t \in tickets' : t.id # calls[w].request.ticket_id
               /\ calls[w].image_path \notin DOMAIN files => files' = files
               /\ calls'[w].printed = "Deleted image file"
                    <=> (calls[w].image_path \in DOMAIN files
                          /\ calls[w].image_path \notin DOMAIN files')
               /\ \A p \in DOMAIN files : p # calls[w].image_path => p \in DOMAIN files']_vars

\* a delete is answered 200 after os.remove raised: the row is gone, the file
\* is still there
C13_Witness ==
  \E w \in Workers :
    /\ Deleting(w)
    /\ calls[w].pc = "done"
    /\ calls[w].response.status_code = 200
    /\ calls[w].printed = "Warning: Could not delete image file"
    /\ \A t \in tickets : t.id # calls[w].request.ticket_id
    /\ files # <<>>

\* a delete is answered 200 with the image file already missing
C13_WitnessMissingFile ==
  \E w \in Workers :
    /\ Deleting(w)
    /\ calls[w].pc = "done"
    /\ calls[w].response.status_code = 200
    /\ calls[w].printed = "nothing"

SigningUp(w) == calls[w] # Idle /\ calls[w].op = "signup"

EmailIsUnique ==
  \A i, j \in DOMAIN users : users[i].email = users[j].email => i = j

\* C14 as stated: no two users rows have the same email, and a signup that
\* does not create the row of its email is answered 400 "Email already
\* registered", whatever the interleaving
C14_DuplicateSignupIsConflict ==
  /\ EmailIsUnique
  /\ \A w \in Workers :
       (SigningUp(w) /\ calls[w].pc = "done" /\ calls[w].response.status_code # 200)
         => /\ calls[w].response.status_code = 400
            /\ calls[w].response.body = "Email already registered"

\* what holds of C14: no two users rows have the same email, and a signup
\* whose email is registered when its SELECT runs is answered 400
C14_EmailStaysUnique ==
  [][/\ EmailIsUnique'
     /\ \A w \in Workers :
          (calls[w] = Idle /\ SigningUp(w)' /\ Registered(calls'[w].request.email))
            => /\ calls'[w].pc = "done"
               /\ calls'[w].response.status_code = 400
               /\ users' = users]_vars

\* the second of two concurrent signups for one email has been answered
C14_Witness ==
  \E w \in Workers :
    /\ SigningUp(w)
    /\ calls[w].pc = "done"
    /\ calls[w].response.status_code = 500
    /\ Registered(calls[w].request.email)
    /\ Len(users) = 1
----------------------------------------------------------------------------
(* Claims about what create_ticket stores and what the classifier answers   *)
(* when nothing is wrong                                                    *)

\* what the workflow stages leave alone: no stage writes a ticket row, and
\* issue_detected stays as analyze_image left it
C21_StagesKeepSummaryAndRows ==
  [][/\ tickets' = tickets
     /\ Len(job.ran) >= 1 => job'.state.issue_detected = job.state.issue_detected]_vars

\* C21: the row create_ticket inserts takes issue_type and priority from the
\* final state of the workflow and description from the stage 1 summary, which
\* the final state still holds; it is inserted once the workflow has returned
\* with ticket_created set; the response is that row; only create_ticket adds
\* a row
C21_RowIsTheFinalState ==
  [][/\ (Takes("create_ticket") /\ response'.status_code = 200)
          => \E t \in tickets' :
               LET summary == image_reasoning_tool(t.image_path, files')
                   final == invoke(initial_state(req'.student_name, req'.location,
                                                 t.image_path), files')
               IN /\ tickets' = tickets \cup {t}
                  /\ t \notin tickets
                  /\ ~summary.raised
                  /\ t.description = summary.value
                  /\ ~final.raised
                  /\ final.state.ticket_created
                  /\ t.description = final.state.issue_detected
                  /\ t.issue_type = final.state.issue_type
                  /\ t.priority = final.state.priority
                  /\ response'.body = TicketResponse(t)
     /\ \A t \in tickets' : (\A u \in tickets : u.id # t.id)
          => req'.op = "create_ticket" /\ response'.status_code = 200]_vars

\* the fan example has been stored as written by the classifier, as Fan / high
C21_Witness ==
  /\ req.op = "create_ticket"
  /\ response.status_code = 200
  /\ response.body.description = FanExample
  /\ \E t \in tickets :
       /\ TicketResponse(t) = response.body
       /\ t.issue_type = "Fan"
       /\ t.priority = "high"

NoIssuesReply ==
  <<"N","o"," ","m","a","i","n","t","e","n","a","n","c","e"," ","i","s","s","u","e","s"," ","d","e","t","e","c","t","e","d">>   \* 'No maintenance issues detected'

\* C24: a summary that is exactly "No maintenance issues detected" is
\* classified Other / low
C24_NoIssuesIsOtherLow ==
  (Classified /\ Summary = NoIssuesReply)
    => job.state.issue_type = "Other" /\ job.state.priority = "low"

C24_Witness ==
  /\ Classified
  /\ Summary = NoIssuesReply
  /\ job.state.issue_type = "Other"
  /\ job.state.priority = "low"
----------------------------------------------------------------------------
(* Claims about the user rows *)

\* C22: no operation deletes a user row or changes one: after every step the
\* rows that existed are still there with the same id (their position), email,
\* role and the rest; every role is student or admin, and a signup that
\* leaves the role out creates a student
C22_UserRowsAreKept ==
  [][/\ Len(users') >= Len(users)
     /\ \A i \in DOMAIN users : users'[i] = users[i]
     /\ \A i \in DOMAIN users' : users'[i].role \in {"student", "admin"}
     /\ (Takes("signup") /\ response'.status_code = 200 /\ "role" \notin DOMAIN req'.body)
          => /\ Len(users') = Len(users) + 1
             /\ users'[Len(users')].role = "student"
             /\ response'.body.user.role = "student"
     /\ Len(users') > Len(users)
          => Takes("signup") /\ response'.status_code = 200]_vars

\* a signup without a role has created a student next to an admin, and a
\* ticket operation has been answered since
C22_Witness ==
  /\ Len(users) = 2
  /\ \E i \in DOMAIN users : users[i].role = "student" /\ users[i].full_name = "u"
  /\ \E i \in DOMAIN users : users[i].role = "admin"
  /\ req.op = "delete_ticket"
  /\ response.status_code = 200

\* C23: no two user rows have emails that are equal ignoring letter case
C23_EmailsUniqueIgnoringCase ==
  \A i, j \in DOMAIN users :
    lower(users[i].email) = lower(users[j].email) => i = j

\* what does hold: no two rows have the same email as stored, and the domain
\* part of every stored email is in lower case
C23_EmailsUniqueAsStored ==
  \A i, j \in DOMAIN users :
    /\ users[i].email = users[j].email => i = j
    /\ EmailStr(users[i].email) = users[i].email

\* a signup for an address that differs from a registered one in the case of
\* its local part has been answered 200
C23_Witness ==
  /\ req.op = "signup"
  /\ response.status_code = 200
  /\ \E i \in DOMAIN users :
       /\ users[i].email # req.body.email
       /\ lower(users[i].email) = lower(req.body.email)

OwnerNext(ticket_id) == \E t \in tickets : t.id = ticket_id /\ t.user_id = CallerNext

\* the body names status together with at least one of the other fields
StatusWithOthers(ticket_update) ==
  ticket_update.status # {} /\ \E f \in FiveFields : ticket_update[f] # {}

OwnerSendsStatusWithOthers ==
  /\ Takes("update_ticket")
  /\ AuthenticatedNext
  /\ ~CallerNextIsAdmin
  /\ OwnerNext(req'.ticket_id)
  /\ StatusWithOthers(req'.ticket_update)

\* C25 as stated: every update_ticket of the non-admin owner naming status
\* together with other fields is answered 403 and changes nothing
C25_OwnerStatusWithOthersIs403 ==
  [][OwnerSendsStatusWithOthers
       => response'.status_code = 403 /\ tickets' = tickets]_vars

\* C25: update_ticket of the ticket's non-admin owner with a body naming
\* status together with other fields changes no ticket; it is answered 403
\* "Only admins can update ticket status" when the body passes validation
\* and 422 when it does not
C25_OwnerStatusWithOthersWritesNothing ==
  [][OwnerSendsStatusWithOthers
       => /\ tickets' = tickets
          /\ response' = IF validate_ticket_update(req'.ticket_update)
                         THEN Response(403, "Only admins can update ticket status")
                         ELSE Response(422, "validation error")]_vars

C25_Witness ==
  /\ req.op = "update_ticket"
  /\ Authenticated
  /\ ~CallerIsAdmin
  /\ req.ticket_update.student_name = {"n2"}
  /\ req.ticket_update.status = {"resolved"}
  /\ response.status_code = 403
  /\ \E t \in tickets :
       /\ t.id = req.ticket_id
       /\ t.user_id = Caller
       /\ t.student_name = "n1"
       /\ t.status = "pending"
----------------------------------------------------------------------------
(* Claims about the service variant of src/main.py *)

\* the caller of the request taken by the step, by the id claim of its token
MainCallerNext == req'.credentials.id

MainCallerNextIsAdmin ==
  MainCallerNext \in DOMAIN users /\ users[MainCallerNext].role = "admin"

MainAuthenticatedNext ==
  req'.credentials.key = SECRET_KEY /\ req'.credentials.exp > now

\* C26: in the variant of src/main.py a caller who is not an admin receives
\* only its own tickets from get_all_tickets, and 404 or 403 from get_ticket
\* for a ticket of another user
C26_NonAdminSeesOwnTicketsOnly ==
  [][/\ (Takes("get_all_tickets") /\ MainAuthenticatedNext /\ ~MainCallerNextIsAdmin)
          => /\ response'.status_code = 200
             /\ \A i \in DOMAIN response'.body :
                  \E t \in tickets : /\ t.id = response'.body[i].ticket_id
                                     /\ t.user_id = MainCallerNext
     /\ (Takes("get_ticket") /\ MainAuthenticatedNext /\ ~MainCallerNextIsAdmin
           /\ \E t \in tickets : t.id = req'.ticket_id /\ t.user_id # MainCallerNext)
          => response'.status_code \in {403, 404}]_vars

\* a student has been sent the ticket of another user by get_ticket
C26_Witness ==
  /\ req.op = "get_ticket"
  /\ req.credentials.key = SECRET_KEY
  /\ users[req.credentials.id].role = "student"
  /\ response.status_code = 200
  /\ \E t \in tickets : /\ t.id = req.ticket_id
                        /\ t.user_id # req.credentials.id
                        /\ response.body = main_TicketResponse(t)

----------------------------------------------------------------------------
(* Claims about update_ticket next to delete_ticket *)

\* the call of worker w is an update_ticket that passed the tests on the
\* caller (owner or admin) and has its response
AuthorisedUpdateDone(w) ==
  /\ calls[w].pc = "done"
  /\ calls[w].op = "update_ticket"
  /\ "ticket_owner_id" \in DOMAIN calls[w]

\* C27: in every interleaving with a delete_ticket of the same ticket, an
\* update_ticket of the owner or an admin is answered the ticket or 404,
\* never 500
C27_UpdateIsTicketOr404 ==
  \A w \in Workers :
    AuthorisedUpdateDone(w) => calls[w].response.status_code \in {200, 404}

\* what does hold: a 200 carries the row as it was read after the commit, and
\* the update never brings a deleted row back
C27_UpdateNeverRestoresRow ==
  [][\A w \in Workers :
       /\ (calls[w].pc = "reselect" /\ calls'[w].pc = "done"
             /\ calls'[w].response.status_code = 200)
            => \E t \in tickets : TicketResponse(t) = calls'[w].response.body
       /\ (calls[w].pc = "update" /\ calls'[w].pc = "reselect")
            => \A u \in tickets' : \E t \in tickets : t.id = u.id]_vars

\* an admin's delete_ticket has removed the row between the tests and the
\* re-SELECT of the owner's update_ticket, which is answered 500
C27_Witness ==
  \E w, v \in Workers :
    /\ AuthorisedUpdateDone(w)
    /\ calls[w].response.status_code = 500
    /\ calls[w].ticket_owner_id = calls[w].request.credentials.user_id
    /\ calls[v].pc \in {"remove", "done"}
    /\ calls[v].op = "delete_ticket"
    /\ calls[v].request.ticket_id = calls[w].request.ticket_id
    /\ \A t \in tickets : t.id # calls[w].request.ticket_id

----------------------------------------------------------------------------
(* Claims about the image files and the rows that name them *)

\* C28: no two ticket rows name the same image_path
C28_ImagePathsAreDistinct ==
  \A t, u \in tickets : t.image_path = u.image_path => t.id = u.id

\* a delete_ticket has been answered 200 and a ticket that remains names a
\* file that is no longer there
C28_Witness ==
  /\ req.op = "delete_ticket"
  /\ response.status_code = 200
  /\ \E t \in tickets : t.id # req.ticket_id /\ t.image_path \notin DOMAIN files

----------------------------------------------------------------------------
(* Claims about what update_ticket and update_ticket_status leave alone *)

SixFields == FiveFields \cup {"status"}

\* C29: every update_ticket and update_ticket_status, answered 200 or not,
\* leaves the id, user_id, image_path and created_at of the target row as
\* they were, leaves every field the body of update_ticket does not supply
\* (for update_ticket_status: every field but status) as it was, and changes
\* no other ticket row and no user row; no row is added or removed
C29_IdentityAndOwnershipAreKept ==
  [][(Takes("update_ticket") \/ Takes("update_ticket_status"))
       => /\ users' = users
          /\ \A u \in tickets' : \E t \in tickets : t.id = u.id
          /\ \A t \in tickets : \E u \in tickets' :
               /\ u.id = t.id
               /\ u.user_id = t.user_id
               /\ u.image_path = t.image_path
               /\ u.created_at = t.created_at
               /\ t.id # req'.ticket_id => u = t
               /\ req'.op = "update_ticket"
                    => \A f \in SixFields : req'.ticket_update[f] = {} => u[f] = t[f]
               /\ req'.op = "update_ticket_status" => FieldsOf(u) = FieldsOf(t)]_vars

\* an admin's update_ticket of another user's ticket has written the name
\* and the status, with the second ticket in the table
C29_Witness ==
  /\ req.op = "update_ticket"
  /\ response.status_code = 200
  /\ req.ticket_update.location = {}
  /\ Cardinality(tickets) = 2
  /\ \E t \in tickets :
       /\ t.id = req.ticket_id
       /\ t.user_id # Caller
       /\ t.student_name = "n2"
       /\ t.status = "resolved"
       /\ t.location = "l1"

----------------------------------------------------------------------------
(* Claims about get_tickets next to get_ticket *)

\* every ticket that get_tickets lists for the bearer of the token is what
\* get_ticket answers that bearer for its id
FetchesWhatIsListed(credentials) ==
  LET listed == get_tickets(credentials) IN
    listed.status_code = 200
      => \A i \in DOMAIN listed.body :
           get_ticket(credentials, listed.body[i].id) = Response(200, listed.body[i])

\* C30: in every state and for every caller, each ticket get_tickets returns
\* is returned to the same caller by get_ticket, an admin included
C30_ListedTicketsCanBeFetched ==
  \A credentials \in tokens : FetchesWhatIsListed(credentials)

\* what does hold: the same for every caller who is not an admin
C30_OwnListedTicketsCanBeFetched ==
  \A credentials \in tokens :
    role_of(credentials.user_id) # <<"admin">> => FetchesWhatIsListed(credentials)

\* an admin has been answered 404 by get_ticket for a ticket of another user
\* that get_tickets lists for the same token
C30_Witness ==
  /\ req.op = "get_ticket"
  /\ Authenticated
  /\ CallerIsAdmin
  /\ response.status_code = 404
  /\ \E t \in tickets : t.id = req.ticket_id /\ t.user_id # Caller
  /\ LET listed == get_tickets(req.credentials) IN
       /\ listed.status_code = 200
       /\ \E i \in DOMAIN listed.body : listed.body[i].id = req.ticket_id

====
